---- MODULE Spec2Model ----
(***************************************************************************)
(* A model of binder-rust: the Parcel byte buffer (src/src/parcel.rs), the *)
(* Binder driver client (src/src/binder.rs) and the ServiceManager,        *)
(* Service and ServiceListener built on it (src/src/service.rs).           *)
(*                                                                         *)
(* Representation.  A byte is an integer in 0..255 and a buffer a sequence *)
(* of bytes.  A 32-bit value (u32 or i32) is the integer its bit pattern   *)
(* denotes as an i32, so that 0x80407203 is a (negative) integer of the    *)
(* model checker; I32Bytes / BytesI32 are the little-endian conversions    *)
(* and ULe is the unsigned order.  Sizes and addresses (u64, usize) are    *)
(* naturals: the address space is scaled down, the width on the wire is    *)
(* kept (8 bytes).                                                         *)
(***************************************************************************)
EXTENDS Integers, Sequences, FiniteSets, TLC

(***************************************************************************)
(* Bytes and little-endian integers (byteorder::LittleEndian).             *)
(***************************************************************************)
Zeros(n) == [i \in 1..n |-> 0]

RECURSIVE LE(_, _)
\* the k low bytes of the natural n, least significant first
LE(n, k) == IF k = 0 THEN <<>> ELSE <<n % 256>> \o LE(n \div 256, k - 1)

RECURSIVE Val(_)
\* the natural a little-endian byte sequence denotes
Val(bs) == IF bs = <<>> THEN 0 ELSE Head(bs) + 256 * Val(Tail(bs))

\* two's complement, 4 bytes, of an integer in the i32 range
I32Bytes(n) ==
    IF n >= 0 THEN LE(n, 4)
    ELSE LET c == LE(-(n + 1), 4) IN [i \in 1..4 |-> 255 - c[i]]

\* the i32 that 4 little-endian bytes denote
BytesI32(bs) ==
    IF bs[4] < 128 THEN Val(bs)
    ELSE -(Val([i \in 1..4 |-> 255 - bs[i]])) - 1

\* a <= b for the u32 values that the i32 integers a and b stand for
ULe(a, b) ==
    IF (a >= 0) = (b >= 0) THEN a <= b ELSE a >= 0

U64Bytes(n) == LE(n, 8)

RECURSIVE Flatten(_)
Flatten(ss) == IF ss = <<>> THEN <<>> ELSE Head(ss) \o Flatten(Tail(ss))

(***************************************************************************)
(* Parcel: a Cursor<Vec<u8>> and the table of object offsets.              *)
(***************************************************************************)
ParcelEmpty == [data |-> <<>>, pos |-> 0, offsets |-> <<>>]

from_slice(bs) == [data |-> bs, pos |-> 0, offsets |-> <<>>]

\* std::io::Cursor<Vec<u8>>::write: overwrite from the cursor on, growing the
\* vector (zero-filled up to the cursor if the cursor is past the end)
CursorWrite(p, bs) ==
    LET base == IF p.pos > Len(p.data)
                THEN p.data \o Zeros(p.pos - Len(p.data)) ELSE p.data
        endp == p.pos + Len(bs)
        tail == IF endp < Len(base) THEN SubSeq(base, endp + 1, Len(base)) ELSE <<>>
    IN  [p EXCEPT !.data = SubSeq(base, 1, p.pos) \o bs \o tail, !.pos = endp]

\* Read::read_exact on the cursor: n bytes or an error (UnexpectedEof)
CursorReadExact(p, n) ==
    IF p.pos + n <= Len(p.data)
    THEN [ok |-> TRUE, val |-> SubSeq(p.data, p.pos + 1, p.pos + n),
          p |-> [p EXCEPT !.pos = p.pos + n]]
    ELSE [ok |-> FALSE, val |-> <<>>, p |-> p]

\* Read::read on the cursor: as many of the n bytes as remain
CursorRead(p, n) ==
    LET start == IF p.pos < Len(p.data) THEN p.pos ELSE Len(p.data)
        got   == IF Len(p.data) - start < n THEN Len(p.data) - start ELSE n
    IN  [val |-> SubSeq(p.data, start + 1, start + got), n |-> got,
         p |-> [p EXCEPT !.pos = p.pos + got]]

reset(p) == ParcelEmpty

has_unread_data(p) == p.pos # Len(p.data)

write_i32(p, n) == CursorWrite(p, I32Bytes(n))

write_u32(p, n) == CursorWrite(p, I32Bytes(n))

write_u64(p, n) == CursorWrite(p, U64Bytes(n))

\* mutant: the word at the cursor is returned and the cursor stays
read_u32_Peek(p) ==
    LET r == CursorReadExact(p, 4)
    IN  [ok |-> r.ok, val |-> IF r.ok THEN BytesI32(r.val) ELSE 0, p |-> p]

read_u32(p) ==
    LET r == CursorReadExact(p, 4)
    IN  [ok |-> r.ok, val |-> IF r.ok THEN BytesI32(r.val) ELSE 0, p |-> r.p]

read_i32(p) == read_u32(p)

\* Parcel::write: the slice zero-padded to a multiple of four
write(p, bs) ==
    LET padded_len == ((Len(bs) + 3) \div 4) * 4
    IN  CursorWrite(p, bs \o Zeros(padded_len - Len(bs)))

\* Parcel::read: size rounded up to a multiple of four; the result has that
\* length whatever the cursor could deliver (the count is ignored)
read(p, size) ==
    LET sz == IF size % 4 # 0 THEN size + 4 - (size % 4) ELSE size
        r  == CursorRead(p, sz)
    IN  [ok |-> TRUE, val |-> r.val \o Zeros(sz - r.n), p |-> r.p]

(***************************************************************************)
(* Strings.  A string is the sequence of its code points; str::len() is    *)
(* its UTF-8 length and encode_utf16 its UTF-16 code units.                *)
(***************************************************************************)
Utf8Len(c) == IF c < 128 THEN 1 ELSE IF c < 2048 THEN 2 ELSE IF c < 65536 THEN 3 ELSE 4

RECURSIVE StrLen(_)
StrLen(str) == IF str = <<>> THEN 0 ELSE Utf8Len(Head(str)) + StrLen(Tail(str))

Utf16Units(c) ==
    IF c < 65536 THEN <<c>>
    ELSE <<55296 + ((c - 65536) \div 1024), 56320 + ((c - 65536) % 1024)>>

RECURSIVE encode_utf16(_)
encode_utf16(str) ==
    IF str = <<>> THEN <<>> ELSE Utf16Units(Head(str)) \o encode_utf16(Tail(str))

IsHighSurrogate(u) == u >= 55296 /\ u <= 56319
IsLowSurrogate(u) == u >= 56320 /\ u <= 57343

RECURSIVE from_utf16(_)
\* String::from_utf16: the code points, or an error on an unpaired surrogate
from_utf16(units) ==
    IF \A i \in 1..Len(units) : ~IsHighSurrogate(units[i]) /\ ~IsLowSurrogate(units[i])
    THEN [ok |-> TRUE, val |-> units]
    ELSE IF IsHighSurrogate(units[1]) /\ Len(units) >= 2 /\ IsLowSurrogate(units[2])
    THEN LET rest == from_utf16(SubSeq(units, 3, Len(units)))
             c == 65536 + (units[1] - 55296) * 1024 + (units[2] - 56320)
         IN  [ok |-> rest.ok, val |-> <<c>> \o rest.val]
    ELSE IF IsHighSurrogate(units[1]) \/ IsLowSurrogate(units[1])
    THEN [ok |-> FALSE, val |-> <<>>]
    ELSE LET rest == from_utf16(Tail(units))
         IN  [ok |-> rest.ok, val |-> <<units[1]>> \o rest.val]

RECURSIVE truncate(_, _)
\* String::truncate(new_len): new_len counts UTF-8 bytes; a new_len inside a
\* character panics, one at or past the end changes nothing
truncate(str, new_len) ==
    IF new_len = 0 THEN [ok |-> TRUE, val |-> <<>>]
    ELSE IF \A i \in 1..Len(str) : str[i] < 128
    THEN [ok |-> TRUE,
          val |-> IF new_len < Len(str) THEN SubSeq(str, 1, new_len) ELSE str]
    ELSE IF Utf8Len(Head(str)) > new_len THEN [ok |-> FALSE, val |-> <<>>]
    ELSE LET rest == truncate(Tail(str), new_len - Utf8Len(Head(str)))
         IN  [ok |-> rest.ok, val |-> <<Head(str)>> \o rest.val]

U16Bytes(units) == Flatten([i \in 1..Len(units) |-> LE(units[i], 2)])

BytesU16(bs) == [i \in 1..(Len(bs) \div 2) |-> bs[2 * i - 1] + 256 * bs[2 * i]]

\* Parcel::write_str16
write_str16(p, string) ==
    LET s16    == U16Bytes(encode_utf16(string)) \o <<0, 0>>
        padded == IF Len(s16) % 4 # 0 THEN s16 \o Zeros(4 - (Len(s16) % 4)) ELSE s16
    IN  CursorWrite(write_i32(p, StrLen(string)), padded)

\* Parcel::read_str16; kind is "ok", "err" (Err returned) or "panic"
read_str16(p) ==
    LET n == read_i32(p) IN
    IF ~n.ok THEN [kind |-> "err", val |-> <<>>, p |-> n.p]
    ELSE
    LET len == n.val + 1 IN
    IF len = 0 THEN [kind |-> "ok", val |-> <<>>, p |-> n.p]
    ELSE IF len < 0 THEN [kind |-> "panic", val |-> <<>>, p |-> n.p]
    ELSE
    LET r   == read(n.p, len * 2)
        res == from_utf16(BytesU16(r.val))
    IN  IF ~res.ok THEN [kind |-> "err", val |-> <<>>, p |-> r.p]
        ELSE LET t == truncate(res.val, len - 1)
             IN  IF t.ok THEN [kind |-> "ok", val |-> t.val, p |-> r.p]
                 ELSE [kind |-> "panic", val |-> <<>>, p |-> r.p]

\* 1 << 31 | 0x42000004, as an i32
StrictModePolicy == BytesI32(<<4, 0, 0, 194>>)

\* "SYST"
HEADER == BytesI32(<<84, 83, 89, 83>>)

\* mutant: the policy word without the penalty-gather bit
write_interface_token_NoGather(p, name) ==
    write_str16(write_i32(write_i32(write_i32(p, BytesI32(<<4, 0, 0, 66>>)), -1), HEADER), name)

\* Parcel::write_interface_token
write_interface_token(p, name) ==
    write_str16(write_i32(write_i32(write_i32(p, StrictModePolicy), -1), HEADER), name)

\* mutant: the work-source word is read and not compared
read_interface_token_AnyUid(p) ==
    LET a == read_i32(p) IN
    IF ~a.ok THEN [kind |-> "err", val |-> <<>>, p |-> a.p]
    ELSE
    LET b == read_i32(a.p) IN
    IF ~b.ok THEN [kind |-> "err", val |-> <<>>, p |-> b.p]
    ELSE
    LET c == read_i32(b.p) IN
    IF ~c.ok THEN [kind |-> "err", val |-> <<>>, p |-> c.p]
    ELSE IF c.val # HEADER THEN [kind |-> "panic", val |-> <<>>, p |-> c.p]
    ELSE read_str16(c.p)

\* Parcel::read_interface_token: the first word is read and dropped, the two
\* asserts panic
read_interface_token(p) ==
    LET a == read_i32(p) IN
    IF ~a.ok THEN [kind |-> "err", val |-> <<>>, p |-> a.p]
    ELSE
    LET b == read_i32(a.p) IN
    IF ~b.ok THEN [kind |-> "err", val |-> <<>>, p |-> b.p]
    ELSE IF b.val # -1 THEN [kind |-> "panic", val |-> <<>>, p |-> b.p]
    ELSE
    LET c == read_i32(b.p) IN
    IF ~c.ok THEN [kind |-> "err", val |-> <<>>, p |-> c.p]
    ELSE IF c.val # HEADER THEN [kind |-> "panic", val |-> <<>>, p |-> c.p]
    ELSE read_str16(c.p)

\* mutant: the other parcel is written from the start of the buffer
append_parcel_AtStart(p, other) ==
    LET w == CursorWrite([p EXCEPT !.pos = 0], other.data)
    IN  [w EXCEPT !.offsets = p.offsets \o other.offsets]

append_parcel(p, other) ==
    LET current_position == p.pos
        w == CursorWrite(p, other.data)
    IN  [w EXCEPT !.offsets = p.offsets \o
            [i \in 1..Len(other.offsets) |-> other.offsets[i] + current_position]]


(***************************************************************************)
(* Binder driver protocol words (binder.rs, _io / _iow / _ior).            *)
(***************************************************************************)
ChC == 99
ChR == 114

IO(c1, c2) == BytesI32(<<c2, c1, 0, 0>>)

IOW(c1, c2, c3) == BytesI32(<<c2, c1, c3, 64>>)

IOR(c1, c2, c3) == BytesI32(<<c2, c1, c3, 128>>)

BC_TRANSACTION == IOW(ChC, 0, 64)
BC_REPLY == IOW(ChC, 1, 64)
BC_INCREFS == IOW(ChC, 4, 4)
BC_ACQUIRE == IOW(ChC, 5, 4)
BC_RELEASE == IOW(ChC, 6, 4)
BC_DECREFS == IOW(ChC, 7, 4)
BC_INCREFS_DONE == IOW(ChC, 8, 16)
BC_ACQUIRE_DONE == IOW(ChC, 9, 16)
BC_ENTER_LOOPER == IO(ChC, 12)
BC_EXIT_LOOPER == IO(ChC, 13)

BR_ERROR == IOR(ChR, 0, 4)
BR_OK == IOR(ChR, 1, 0)
BR_TRANSACTION == IOR(ChR, 2, 64)
BR_REPLY == IOR(ChR, 3, 64)
BR_ACQUIRE_RESULT == IOR(ChR, 4, 4)
BR_DEAD_REPLY == IO(ChR, 5)
BR_TRANSACTION_COMPLETE == IO(ChR, 6)
BR_INCREFS == IOR(ChR, 7, 16)
BR_ACQUIRE == IOR(ChR, 8, 16)
BR_RELEASE == IOR(ChR, 9, 16)
BR_DECREFS == IOR(ChR, 10, 16)
BR_ATTEMPT_ACQUIRE == IOR(ChR, 11, 12)
BR_NOOP == IO(ChR, 12)
BR_SPAWN_LOOPER == IO(ChR, 13)
BR_FINISHED == IO(ChR, 14)
BR_DEAD_BINDER == IOR(ChR, 15, 8)
BR_CLEAR_DEATH_NOTIFICATION_DONE == IOR(ChR, 16, 8)
BR_FAILED_REPLY == IO(ChR, 17)
BR_FROZEN_REPLY == IO(ChR, 18)
BR_ONEWAY_SPAM_SUSPECT == IO(ChR, 19)

\* the words BinderDriverReturnProtocol::from_u32 maps to Some(_)
BinderDriverReturnProtocol ==
    { BR_ERROR, BR_OK, BR_TRANSACTION, BR_REPLY, BR_ACQUIRE_RESULT, BR_DEAD_REPLY,
      BR_TRANSACTION_COMPLETE, BR_INCREFS, BR_ACQUIRE, BR_RELEASE, BR_DECREFS,
      BR_ATTEMPT_ACQUIRE, BR_NOOP, BR_SPAWN_LOOPER, BR_FINISHED, BR_DEAD_BINDER,
      BR_CLEAR_DEATH_NOTIFICATION_DONE, BR_FAILED_REPLY, BR_FROZEN_REPLY,
      BR_ONEWAY_SPAM_SUSPECT }

\* TransactionFlags (bitflags!)
TF_OneWay == 1
TF_CollectNotedAppOps == 2
TF_AcceptFds == 16

\* the bits bitflags! defines: OneWay .. ClearBuf
TF_AllBits == 1 + 2 + 4 + 8 + 16 + 32

RECURSIVE BitOr(_, _)
\* a | b on naturals
BitOr(a, b) ==
    IF a = 0 THEN b
    ELSE IF b = 0 THEN a
    ELSE (IF a % 2 = 1 \/ b % 2 = 1 THEN 1 ELSE 0) + 2 * BitOr(a \div 2, b \div 2)

\* TransactionFlags::from_bits: None when a bit outside the defined ones is set
from_bits(bits) ==
    IF bits >= 0 /\ bits <= TF_AllBits THEN [some |-> TRUE, bits |-> bits]
    ELSE [some |-> FALSE, bits |-> 0]

(***************************************************************************)
(* BinderTransactionData, #[repr(C)]: target u32, 4 bytes of padding,      *)
(* cookie u64, code, flags, sender_pid, sender_euid u32, data_size,        *)
(* offset_size u64, data and offsets pointers.                             *)
(***************************************************************************)
SizeOfUsize == 8

SizeOfTransactionData == 4 + 4 + 8 + 4 + 4 + 4 + 4 + 8 + 8 + 8 + 8

NullPtr == 0

\* the bytes of the struct in memory; pad is what the padding happens to hold
TransactionDataBytes(td, pad) ==
    I32Bytes(td.target) \o pad \o U64Bytes(td.cookie) \o I32Bytes(td.code)
    \o I32Bytes(td.flags) \o I32Bytes(td.sender_pid) \o I32Bytes(td.sender_euid)
    \o U64Bytes(td.data_size) \o U64Bytes(td.offset_size)
    \o U64Bytes(td.data) \o U64Bytes(td.offsets)

\* the struct a 64-byte image denotes
TransactionDataOfBytes(bs) ==
    [target |-> BytesI32(SubSeq(bs, 1, 4)),
     cookie |-> Val(SubSeq(bs, 9, 16)),
     code |-> BytesI32(SubSeq(bs, 17, 20)),
     flags |-> BytesI32(SubSeq(bs, 21, 24)),
     sender_pid |-> BytesI32(SubSeq(bs, 25, 28)),
     sender_euid |-> BytesI32(SubSeq(bs, 29, 32)),
     data_size |-> Val(SubSeq(bs, 33, 40)),
     offset_size |-> Val(SubSeq(bs, 41, 48)),
     data |-> Val(SubSeq(bs, 49, 56)),
     offsets |-> Val(SubSeq(bs, 57, 64))]

NoTransactionData ==
    [target |-> 0, cookie |-> 0, code |-> 0, flags |-> 0, sender_pid |-> 0,
     sender_euid |-> 0, data_size |-> 0, offset_size |-> 0, data |-> NullPtr,
     offsets |-> NullPtr]

\* Parcel::write_transaction_data: the raw struct through Parcel::write
write_transaction_data(p, td, pad) == write(p, TransactionDataBytes(td, pad))

\* Parcel::read_object::<T>, T of n bytes: the n bytes at the cursor with no
\* bounds check; beyond holds what lies behind the buffer.  val is the image.
read_object(p, n, beyond) ==
    LET avail == IF p.pos < Len(p.data) THEN SubSeq(p.data, p.pos + 1, Len(p.data))
                 ELSE <<>>
    IN  [ok |-> TRUE, val |-> SubSeq(avail \o beyond, 1, n),
         p |-> [p EXCEPT !.pos = p.pos + n]]

\* Parcel::read_transaction_data
read_transaction_data(p, beyond) ==
    LET r == read_object(p, SizeOfTransactionData, beyond)
    IN  [ok |-> TRUE, val |-> TransactionDataOfBytes(r.val), p |-> r.p]

(***************************************************************************)
(* The mapped region: mem.base is the address mmap returned, mem.bytes its *)
(* contents.  Inbound descriptors point into it.                           *)
(***************************************************************************)
InRegion(mem, addr, n) ==
    addr >= mem.base /\ addr + n <= mem.base + Len(mem.bytes)

MemRead(mem, addr, n) ==
    SubSeq(mem.bytes, addr - mem.base + 1, addr - mem.base + n)

\* mutant: the offsets array is not copied
from_data_and_offsets_NoOffsets(mem, data, data_size, offsets, offsets_size) ==
    [data |-> MemRead(mem, data, data_size), pos |-> 0, offsets |-> <<>>]

\* Parcel::from_data_and_offsets: copies data_size bytes at data and
\* offsets_size usize entries at offsets
from_data_and_offsets(mem, data, data_size, offsets, offsets_size) ==
    [data |-> MemRead(mem, data, data_size),
     pos |-> 0,
     offsets |-> [i \in 1..offsets_size |->
                    Val(MemRead(mem, offsets + (i - 1) * SizeOfUsize, SizeOfUsize))]]

(***************************************************************************)
(* Binder::proccess_incoming.  self is the client (its pending_out_data),  *)
(* parcel_in the inbound buffer.  The result: kind "ok" with some / td /   *)
(* parcel for Ok((Some(td), parcel)) and Ok((None, Parcel::empty())),      *)
(* "err" for Err(_) (a failed read), "panic" for panic!; self and          *)
(* parcel_in as the call leaves them; printed, the values of the           *)
(* "Got an error" lines written to stdout.                                 *)
(***************************************************************************)
Outcome(kind, some, td, parcel, self, parcel_in, printed) ==
    [kind |-> kind, some |-> some, td |-> td, parcel |-> parcel,
     self |-> self, parcel_in |-> parcel_in, printed |-> printed]

\* mutant: the FailedReply arm is missing
TerminalReplies_DeadOnly == {BR_DEAD_REPLY}

\* the commands whose arm panics
\* mutant: an Error frame ends the call like a dead or failed reply
TerminalReplies_WithError == {BR_DEAD_REPLY, BR_FAILED_REPLY, BR_ERROR}

TerminalReplies == {BR_DEAD_REPLY, BR_FAILED_REPLY}

RECURSIVE ProcessLoop(_, _, _, _, _)
ProcessLoop(self, parcel_in, mem, beyond, printed) ==
    IF ~has_unread_data(parcel_in)
    THEN Outcome("ok", FALSE, NoTransactionData, ParcelEmpty, self, parcel_in, printed)
    ELSE
    LET c == read_u32(parcel_in) IN
    IF ~c.ok
    THEN Outcome("err", FALSE, NoTransactionData, ParcelEmpty, self, c.p, printed)
    ELSE IF c.val \notin BinderDriverReturnProtocol
    THEN ProcessLoop(self, c.p, mem, beyond, printed)
    ELSE IF c.val \in TerminalReplies
    THEN Outcome("panic", FALSE, NoTransactionData, ParcelEmpty, self, c.p, printed)
    ELSE IF c.val \in {BR_INCREFS, BR_ACQUIRE}
    THEN ProcessLoop(self, c.p, mem, beyond, printed)
    ELSE IF c.val = BR_ACQUIRE_RESULT
    THEN LET r == read_i32(c.p) IN
         IF ~r.ok
         THEN Outcome("err", FALSE, NoTransactionData, ParcelEmpty, self, r.p, printed)
         ELSE ProcessLoop(self, r.p, mem, beyond, printed)
    ELSE IF c.val \in {BR_REPLY, BR_TRANSACTION}
    THEN LET t  == read_transaction_data(c.p, beyond)
             td == t.val
         IN  IF InRegion(mem, td.data, td.data_size)
                /\ InRegion(mem, td.offsets, td.offset_size)
             THEN Outcome("ok", TRUE, td,
                          from_data_and_offsets(mem, td.data, td.data_size, td.offsets,
                                                td.offset_size \div SizeOfUsize),
                          self, t.p, printed)
             ELSE Outcome("fault", FALSE, td, ParcelEmpty, self, t.p, printed)
    ELSE IF c.val = BR_ERROR
    THEN LET r == read_i32(c.p) IN
         IF ~r.ok
         THEN Outcome("err", FALSE, NoTransactionData, ParcelEmpty, self, r.p, printed)
         ELSE ProcessLoop(self, r.p, mem, beyond, Append(printed, r.val))
    ELSE ProcessLoop(self, c.p, mem, beyond, printed)

proccess_incoming(self, parcel_in, mem, beyond) ==
    ProcessLoop(self, parcel_in, mem, beyond, <<>>)

(***************************************************************************)
(* The Binder client.  self = [fd, pending_out_data, panicking].           *)
(***************************************************************************)
push_object(p) == [p EXCEPT !.offsets = Append(@, p.pos)]

\* mutant: the handle written as a 64-bit word
add_ref_Wide(self, handle) ==
    [self EXCEPT !.pending_out_data = write_u64(write_u32(@, BC_INCREFS), handle)]

add_ref(self, handle) ==
    [self EXCEPT !.pending_out_data = write_i32(write_u32(@, BC_INCREFS), handle)]

dec_ref(self, handle) ==
    [self EXCEPT !.pending_out_data = write_i32(write_u32(@, BC_DECREFS), handle)]

acquire(self, handle) ==
    [self EXCEPT !.pending_out_data = write_i32(write_u32(@, BC_ACQUIRE), handle)]

release(self, handle) ==
    [self EXCEPT !.pending_out_data = write_i32(write_u32(@, BC_RELEASE), handle)]

\* mutant: the caller's flags passed on as they are
transact_data_FlagsVerbatim(handle, code, flags, data, ptrs) ==
    [target |-> handle, code |-> code, flags |-> flags,
     cookie |-> 0, sender_pid |-> 0, sender_euid |-> 0,
     data_size |-> Len(data.data),
     offset_size |-> Len(data.offsets) * SizeOfUsize,
     data |-> IF Len(data.data) # 0 THEN ptrs.data ELSE NullPtr,
     offsets |-> IF Len(data.offsets) # 0 THEN ptrs.offsets ELSE NullPtr]

\* the descriptor transact builds; ptrs are the addresses of data's buffer and
\* of its offsets vector
transact_data(handle, code, flags, data, ptrs) ==
    [target |-> handle, code |-> code, flags |-> BitOr(TF_AcceptFds, flags),
     cookie |-> 0, sender_pid |-> 0, sender_euid |-> 0,
     data_size |-> Len(data.data),
     offset_size |-> Len(data.offsets) * SizeOfUsize,
     data |-> IF Len(data.data) # 0 THEN ptrs.data ELSE NullPtr,
     offsets |-> IF Len(data.offsets) # 0 THEN ptrs.offsets ELSE NullPtr]

\* mutant: AcceptFds forced as in transact
reply_data_AcceptFds(flags, data, ptrs) ==
    [target |-> -1, code |-> 0, flags |-> BitOr(TF_AcceptFds, flags),
     cookie |-> 0, sender_pid |-> 0, sender_euid |-> 0,
     data_size |-> Len(data.data),
     offset_size |-> Len(data.offsets) * SizeOfUsize,
     data |-> IF Len(data.data) # 0 THEN ptrs.data ELSE NullPtr,
     offsets |-> IF Len(data.offsets) # 0 THEN ptrs.offsets ELSE NullPtr]

\* the descriptor reply builds: target 0xffffffff, code 0, the flags as given
reply_data(flags, data, ptrs) ==
    [target |-> -1, code |-> 0, flags |-> flags,
     cookie |-> 0, sender_pid |-> 0, sender_euid |-> 0,
     data_size |-> Len(data.data),
     offset_size |-> Len(data.offsets) * SizeOfUsize,
     data |-> IF Len(data.data) # 0 THEN ptrs.data ELSE NullPtr,
     offsets |-> IF Len(data.offsets) # 0 THEN ptrs.offsets ELSE NullPtr]

\* transact and reply up to the flush: the opcode and the descriptor queued
queue_transaction(self, opcode, td, pad) ==
    [self EXCEPT !.pending_out_data =
        write_transaction_data(write_i32(@, opcode), td, pad)]

\* do_write_read up to the ioctl: parcel_out appended to pending-out
flush_buffer(self, parcel_out) ==
    [self EXCEPT !.pending_out_data = append_parcel(@, parcel_out)]

\* mutant: pending-out is not reset after the ioctl
after_ioctl_NoReset(self, inbound, mem, beyond) ==
    proccess_incoming(self, from_slice(inbound), mem, beyond)

\* do_write_read after the ioctl returned inbound: reset, then proccess_incoming
after_ioctl(self, inbound, mem, beyond) ==
    proccess_incoming([self EXCEPT !.pending_out_data = reset(@)],
                      from_slice(inbound), mem, beyond)

\* where a call's data parcel keeps its bytes and its offsets
HeapPtrs == [data |-> 4096, offsets |-> 8192]

\* the inbound buffer of write_read: [0u8; 32 * 8]
InBufSize == 32 * 8

(***************************************************************************)
(* The driver side, as the client can observe it: the return frames queued *)
(* for this thread (todo) and the payload buffers in the mapped region.    *)
(***************************************************************************)
MapBase == 16 * 4096

\* scenario S1: write_u32(1), write_i32(-1), write_bool(true)
BufS1 == I32Bytes(1) \o I32Bytes(-1) \o I32Bytes(1)

\* 's','h','*',0x85 packed: the tag of a strong handle
TF_HANDLE == BytesI32(<<133, 42, 104, 115>>)

\* a flat_binder_object as the kernel lays it out: type, flags, handle, cookie
KernelFlatObject(type, flags, handle, cookie) ==
    I32Bytes(type) \o I32Bytes(flags) \o U64Bytes(handle) \o U64Bytes(cookie)

\* a GetService reply: status 0, then a strong handle (object at offset 4)
BufObj == I32Bytes(0) \o KernelFlatObject(TF_HANDLE, 127 + 256, 1, 0)

\* a String16 as a peer's libbinder writes it: the count of UTF-16 units, the
\* units, a terminator, padding to a word
WireStr16(units) ==
    LET bs == U16Bytes(units) \o <<0, 0>>
    IN  I32Bytes(Len(units)) \o bs \o Zeros((4 - (Len(bs) % 4)) % 4)

\* "IM", the interface the listener serves, and "IX"
InterfaceName == <<73, 77>>
OtherName == <<73, 88>>

\* a call as a peer sends it: the interface token, then one argument word
BufCall(name) ==
    I32Bytes(StrictModePolicy) \o I32Bytes(-1) \o I32Bytes(HEADER) \o WireStr16(name)
    \o I32Bytes(5)

Pad8(bs) == bs \o Zeros((8 - (Len(bs) % 8)) % 8)

\* the region: each buffer 8-aligned, its offsets array right behind its data
Layout ==
    LET b1 == Pad8(BufS1)
        b2 == Pad8(BufObj) \o U64Bytes(4)
        b3 == Pad8(BufCall(InterfaceName))
        b4 == Pad8(BufCall(OtherName))
    IN  [bytes |-> b1 \o b2 \o b3 \o b4,
         s1  |-> [data |-> MapBase, data_size |-> Len(BufS1),
                  offsets |-> MapBase + Len(b1), offset_size |-> 0],
         obj |-> [data |-> MapBase + Len(b1), data_size |-> Len(BufObj),
                  offsets |-> MapBase + Len(b1) + Len(Pad8(BufObj)),
                  offset_size |-> SizeOfUsize],
         call |-> [data |-> MapBase + Len(b1) + Len(b2),
                   data_size |-> Len(BufCall(InterfaceName)),
                   offsets |-> MapBase + Len(b1) + Len(b2) + Len(b3), offset_size |-> 0],
         other |-> [data |-> MapBase + Len(b1) + Len(b2) + Len(b3),
                    data_size |-> Len(BufCall(OtherName)),
                    offsets |-> MapBase + Len(b1) + Len(b2) + Len(b3) + Len(b4),
                    offset_size |-> 0]]

\* the descriptor the driver returns for a buffer of the region
DriverDescriptor(buf, code, flags) ==
    [target |-> 0, cookie |-> 0, code |-> code, flags |-> flags,
     sender_pid |-> 1000, sender_euid |-> 0,
     data_size |-> buf.data_size, offset_size |-> buf.offset_size,
     data |-> buf.data, offsets |-> buf.offsets]

\* a return frame: the command word and its fixed payload
Frame(cmd, td, payload) == [cmd |-> cmd, td |-> td, payload |-> payload]

FrameBytes(f) == I32Bytes(f.cmd) \o f.payload

BareFrame(cmd) == Frame(cmd, NoTransactionData, <<>>)

DescriptorFrame(cmd, td) == Frame(cmd, td, TransactionDataBytes(td, Zeros(4)))

\* binder_ptr_cookie: the node's ptr and cookie, each given as two 32-bit words
RefFrame(cmd, ptr, cookie) ==
    Frame(cmd, NoTransactionData,
          I32Bytes(ptr[1]) \o I32Bytes(ptr[2]) \o I32Bytes(cookie[1]) \o I32Bytes(cookie[2]))

\* Error(e); the driver reports a negative errno, such as -22 (EINVAL)
ErrorFrame(e) == Frame(BR_ERROR, NoTransactionData, I32Bytes(e))

\* node 7, and a node whose address 0x7ffc80047200 has BR_ERROR as its low word
Node7 == <<7, 0>>
NodeAliased == <<BR_ERROR, 32764>>
NoCookie == <<0, 0>>

InboundFrames ==
    { BareFrame(BR_NOOP), BareFrame(BR_TRANSACTION_COMPLETE), BareFrame(BR_SPAWN_LOOPER),
      BareFrame(BR_DEAD_REPLY), BareFrame(BR_FAILED_REPLY), ErrorFrame(-22),
      RefFrame(BR_INCREFS, Node7, NoCookie), RefFrame(BR_ACQUIRE, NodeAliased, NoCookie),
      DescriptorFrame(BR_REPLY, DriverDescriptor(Layout.s1, 0, 0)),
      DescriptorFrame(BR_REPLY, DriverDescriptor(Layout.obj, 0, 0)),
      DescriptorFrame(BR_TRANSACTION, DriverDescriptor(Layout.s1, 1, TF_AcceptFds)) }

StreamBytes(frames) == Flatten([i \in 1..Len(frames) |-> FrameBytes(frames[i])])

\* what lies behind a buffer that read_object overruns
Beyond == { Zeros(SizeOfTransactionData), [i \in 1..SizeOfTransactionData |-> 170] }

\* what the padding of a descriptor built on the stack holds
Pads == { Zeros(4), <<170, 170, 170, 170>> }

(***************************************************************************)
(* BinderFlatObject.  The struct carries no #[repr]: the compiler chooses  *)
(* the order of its fields.  "declared" is the order as written (the       *)
(* kernel's), "reordered" has the two usize fields first.                  *)
(***************************************************************************)
FlatLayouts == {"declared", "reordered"}

SizeOfFlatObject == 4 + 4 + 8 + 8 + 4 + 4

\* 's','b','*',0x85 packed: the tag of a local binder
TF_BINDER == BytesI32(<<133, 42, 98, 115>>)

\* stability == SYSTEM
StabilitySystem == 12

\* BinderFlatObject::new
BinderFlatObjectNew(binder_type, handle, cookie, flags) ==
    [binder_type |-> binder_type, flags |-> flags, handle |-> handle,
     cookie |-> cookie, stability |-> StabilitySystem]

\* the bytes of the struct in memory; pad is what the tail padding holds
FlatObjectBytes(obj, layout, pad) ==
    IF layout = "declared"
    THEN I32Bytes(obj.binder_type) \o I32Bytes(obj.flags) \o U64Bytes(obj.handle)
         \o U64Bytes(obj.cookie) \o I32Bytes(obj.stability) \o pad
    ELSE U64Bytes(obj.handle) \o U64Bytes(obj.cookie) \o I32Bytes(obj.binder_type)
         \o I32Bytes(obj.flags) \o I32Bytes(obj.stability) \o pad

\* flat_object.handle as i32, of the struct an image denotes
FlatObjectHandle(bs, layout) ==
    IF layout = "declared" THEN BytesI32(SubSeq(bs, 9, 12)) ELSE BytesI32(SubSeq(bs, 1, 4))

\* Parcel::write_object: the position pushed, then the raw struct
write_object(p, bs) == CursorWrite(push_object(p), bs)

(***************************************************************************)
(* State.                                                                  *)
(***************************************************************************)
VARIABLES
    binder,   \* the Binder client: fd, pending_out_data, panicking
    todo,     \* driver: the return frames queued for this thread
    mem,      \* the mapped region
    op,       \* the operation this step performed, and what it had queued
    ioc,      \* the ioctls this step issued
    ret,      \* what the operation returned
    queued,   \* the commands appended to pending-out since the last flush
    build,    \* the field order the compiler gave BinderFlatObject
    sm,       \* the ServiceManager owning the client: "none", "ready", "lent"
    svc,      \* the Service obtained from get_service
    listener, \* the ServiceListener: its interface name and its place in run
    sent,     \* driver: the ref-count commands received, in order
    looper,   \* driver: whether the thread has sent EnterLooper, ExitLooper
    user_parcel, \* a Parcel in the hands of a user of the library
    user_op      \* the Parcel operation the user performed last

service == <<build, sm, svc, listener, sent>>

user == <<user_parcel, user_op>>

vars == <<binder, todo, mem, op, ioc, ret, queued, build, sm, svc, listener, sent,
          looper, user_parcel, user_op>>

MaxTodo == 2
MaxQueued == 2

NoIoctl == <<>>

\* a system call on the fd: BINDER_WRITE_READ with its write buffer and the size
\* of its read buffer, or close
Ioctl(write_buffer, read_size, read_consumed) ==
    [sys |-> "write_read", write |-> write_buffer, read_size |-> read_size,
     read_consumed |-> read_consumed]

Close == [sys |-> "close", write |-> <<>>, read_size |-> 0, read_consumed |-> 0]

NoRet == [kind |-> "none", some |-> FALSE, td |-> NoTransactionData,
          parcel |-> ParcelEmpty, unread |-> 0, printed |-> <<>>]

\* a queued command, as the caller issued it
Cmd(call, handle, td, pad, parcel) ==
    [call |-> call, handle |-> handle, td |-> td, pad |-> pad, parcel |-> parcel]

NoService == [state |-> "none", handle |-> 0, interface_name |-> <<>>]

NoListener == [state |-> "none", interface_name |-> <<>>, some |-> FALSE,
               td |-> NoTransactionData, parcel |-> ParcelEmpty, handled |-> <<>>]

\* no Parcel operation yet: the operation's name and argument, the parcel
\* before it, what it returned, the parcel passed in, the number of
\* operations so far, the flat objects written (where, and their bytes), the
\* values serialized, how many were read back, and whether the cursor was
\* rewound in between
NoUserOp == [name |-> "none", arg |-> <<>>, before |-> ParcelEmpty,
             res |-> [kind |-> "none", val |-> <<>>], other |-> ParcelEmpty, n |-> 0,
             objs |-> {}, vals |-> <<>>, nread |-> 0, rewound |-> FALSE]

\* Binder::new has returned, in a build that lays BinderFlatObject out as one
\* of builds
InitBuild(builds) ==
    /\ binder = [fd |-> "open", pending_out_data |-> ParcelEmpty, panicking |-> FALSE]
    /\ todo = <<>>
    /\ mem = [base |-> MapBase, bytes |-> Layout.bytes]
    /\ op = [name |-> "new", log |-> <<>>]
    /\ ioc = NoIoctl
    /\ ret = NoRet
    /\ queued = <<>>
    /\ build \in builds
    /\ sm = "none"
    /\ svc = NoService
    /\ listener = NoListener
    /\ sent = <<>>
    /\ looper = [entered |-> FALSE, exited |-> FALSE]
    /\ user_parcel = ParcelEmpty
    /\ user_op = NoUserOp

Init == InitBuild({"declared"})

Usable == binder.fd = "open" /\ ~binder.panicking

\* the driver queues a return frame for the thread
DriverPost(frames) ==
    /\ binder.fd = "open"
    /\ Len(todo) < MaxTodo
    /\ \E f \in frames : todo' = Append(todo, f)
    /\ op' = [name |-> "driver", log |-> <<>>]
    /\ ioc' = NoIoctl
    /\ ret' = NoRet
    /\ UNCHANGED <<binder, mem, queued, looper>>
    /\ UNCHANGED <<service, user>>

\* add_ref, dec_ref, acquire, release
RefCall(name, handle) ==
    /\ Usable
    /\ Len(queued) < MaxQueued
    /\ binder' = CASE name = "add_ref" -> add_ref(binder, handle)
                   [] name = "dec_ref" -> dec_ref(binder, handle)
                   [] name = "acquire" -> acquire(binder, handle)
                   [] name = "release" -> release(binder, handle)
    /\ queued' = Append(queued, Cmd(name, handle, NoTransactionData, <<>>, ParcelEmpty))
    /\ op' = [name |-> name, log |-> <<>>]
    /\ ioc' = NoIoctl
    /\ ret' = NoRet
    /\ UNCHANGED <<todo, mem, looper>>
    /\ UNCHANGED <<service, user>>

\* the client after a call that hands the Result to its caller: a panic, or a
\* fault on a wild pointer, unwinds
Returned(out) == [out.self EXCEPT !.panicking = (out.kind \in {"panic", "fault"})]

\* the client after a call whose Result the caller takes apart: Err unwinds too
Unwrapped(out) == [out.self EXCEPT !.panicking = (out.kind # "ok")]

\* the handle get_service takes from the reply: read_u32, whose result is
\* dropped, then read_object::<BinderFlatObject>
ReplyHandle(parcel, layout, beyond) ==
    FlatObjectHandle(read_object(read_u32(parcel).p, SizeOfFlatObject, beyond).val, layout)

\* what an operation makes of the client once its do_write_read is over:
\* "returned" and "unwrapped" as above; get_service queues IncRefs and
\* Acquire for the handle it read; Service::call panics on a status other
\* than 0
After(rest, out) ==
    CASE rest.kind = "returned" -> Returned(out)
      [] rest.kind = "unwrapped" -> Unwrapped(out)
      [] rest.kind = "get_service" ->
            IF out.kind # "ok" THEN Unwrapped(out)
            ELSE LET h == ReplyHandle(out.parcel, rest.layout, rest.junk)
                 IN  acquire(add_ref(out.self, h), h)
      [] rest.kind = "call" ->
            LET status == read_u32(out.parcel)
            IN  [out.self EXCEPT !.panicking =
                    (out.kind # "ok" \/ ~status.ok \/ status.val # 0)]

Rest(kind) == [kind |-> kind]

\* what the operation hands back without looking into the reply: the result
\* of do_write_read
Returns_AnyStatus(rest, out) ==
    [kind |-> out.kind, some |-> out.some, td |-> out.td, parcel |-> out.parcel,
     unread |-> Len(out.parcel_in.data) - out.parcel_in.pos, printed |-> out.printed]

\* what the operation hands back: the result of do_write_read, but for
\* Service::call, which returns the reply parcel as read_u32 left it, or
\* panics
Returns(rest, out) ==
    LET status == read_u32(out.parcel)
        failed == out.kind # "ok" \/ ~status.ok \/ status.val # 0
    IN  [kind |-> IF rest.kind = "call" /\ failed THEN "panic" ELSE out.kind,
         some |-> out.some,
         td |-> out.td,
         parcel |-> IF rest.kind # "call" THEN out.parcel
                    ELSE IF failed THEN ParcelEmpty ELSE status.p,
         unread |-> Len(out.parcel_in.data) - out.parcel_in.pos,
         printed |-> out.printed]

RECURSIVE LooperParse(_, _)
\* driver: the looper state of the thread after the commands of a write
\* buffer.  The size of a command's argument is in bits 16..29 of its opcode.
LooperParse(st, bs) ==
    IF Len(bs) < 4 THEN st
    ELSE LET cmd  == BytesI32(SubSeq(bs, 1, 4))
             size == bs[3] + 256 * (bs[4] % 64)
             next == CASE cmd = BC_ENTER_LOOPER -> [st EXCEPT !.entered = TRUE]
                       [] cmd = BC_EXIT_LOOPER -> [st EXCEPT !.exited = TRUE]
                       [] OTHER -> st
         IN  LooperParse(next, SubSeq(bs, 4 + size + 1, Len(bs)))

RECURSIVE DriverLooper(_, _)
\* driver: the looper state after the system calls of a step
DriverLooper(st, calls) ==
    IF calls = <<>> THEN st
    ELSE DriverLooper(LooperParse(st, Head(calls).write), Tail(calls))

\* BINDER_WRITE_READ with a read buffer: the driver takes the write buffer and
\* returns the first k queued frames, as many as fit the read buffer; the call
\* blocks while nothing is queued.  Then the rest of do_write_read.  before
\* holds the ioctls the operation issued ahead of this one, rest names what
\* the operation does once do_write_read is over.
WriteRead(self, name, log, before, rest) ==
    \E k \in 1..Len(todo), beyond \in Beyond :
        LET inbound == StreamBytes(SubSeq(todo, 1, k))
            out     == after_ioctl(self, inbound, mem, beyond)
        IN  /\ Len(inbound) <= InBufSize
            /\ todo' = SubSeq(todo, k + 1, Len(todo))
            /\ ioc' = Append(before,
                             Ioctl(self.pending_out_data.data, InBufSize, Len(inbound)))
            /\ binder' = After(rest, out)
            /\ ret' = Returns(rest, out)
            /\ op' = [name |-> name, log |-> log]
            /\ looper' = DriverLooper(looper, ioc')
            /\ UNCHANGED mem

\* transact(handle, code, flags, data), for the arguments in args
Transact(args, pads) ==
    /\ Usable
    /\ \E a \in args, pad \in pads :
        LET td == transact_data(a.handle, a.code, a.flags, a.data, a.ptrs)
        IN  WriteRead(flush_buffer(queue_transaction(binder, BC_TRANSACTION, td, pad),
                                   ParcelEmpty),
                      "transact",
                      Append(queued, Cmd("transact", a.handle, td, pad, a.data)),
                      NoIoctl, Rest("returned"))
    /\ queued' = <<>>
    /\ UNCHANGED <<service, user>>

\* reply(data, flags), for the arguments in args
Reply(args, pads) ==
    /\ Usable
    /\ \E a \in args, pad \in pads :
        LET td == reply_data(a.flags, a.data, a.ptrs)
        IN  WriteRead(flush_buffer(queue_transaction(binder, BC_REPLY, td, pad),
                                   ParcelEmpty),
                      "reply",
                      Append(queued, Cmd("reply", 0, td, pad, a.data)),
                      NoIoctl, Rest("returned"))
    /\ queued' = <<>>
    /\ UNCHANGED <<service, user>>

DoWriteRead(outs) ==
    /\ Usable
    /\ \E parcel_out \in outs :
        WriteRead(flush_buffer(binder, parcel_out), "do_write_read",
                  Append(queued, Cmd("do_write_read", 0, NoTransactionData, <<>>,
                                     parcel_out)),
                  NoIoctl, Rest("returned"))
    /\ queued' = <<>>
    /\ UNCHANGED <<service, user>>

\* enter_looper: its own parcel, written with no read buffer
EnterLooper ==
    /\ Usable
    /\ ioc' = <<Ioctl(write_i32(ParcelEmpty, BC_ENTER_LOOPER).data, 0, 0)>>
    /\ op' = [name |-> "enter_looper", log |-> <<>>]
    /\ ret' = NoRet
    /\ looper' = DriverLooper(looper, ioc')
    /\ UNCHANGED <<binder, todo, mem, queued>>
    /\ UNCHANGED <<service, user>>

\* mutant: the fd closed with no ExitLooper written
Drop_NoExit ==
    /\ binder.fd = "open"
    /\ ioc' = <<Close>>
    /\ binder' = [binder EXCEPT !.fd = "closed"]
    /\ op' = [name |-> "drop", log |-> <<>>]
    /\ ret' = NoRet
    /\ looper' = DriverLooper(looper, ioc')
    /\ UNCHANGED <<todo, mem, queued>>
    /\ UNCHANGED <<service, user>>

\* impl Drop for Binder: exit_looper, then close
Drop ==
    /\ binder.fd = "open"
    /\ ioc' = <<Ioctl(write_i32(ParcelEmpty, BC_EXIT_LOOPER).data, 0, 0), Close>>
    /\ binder' = [binder EXCEPT !.fd = "closed"]
    /\ op' = [name |-> "drop", log |-> <<>>]
    /\ ret' = NoRet
    /\ looper' = DriverLooper(looper, ioc')
    /\ UNCHANGED <<todo, mem, queued>>
    /\ UNCHANGED <<service, user>>

(***************************************************************************)
(* ServiceManager, Service and ServiceListener.                            *)
(***************************************************************************)
\* "android.os.IServiceManager"
SERVICE_MANAGER_INTERFACE_TOKEN ==
    <<97, 110, 100, 114, 111, 105, 100, 46, 111, 115, 46, 73, 83, 101, 114, 118, 105,
      99, 101, 77, 97, 110, 97, 103, 101, 114>>

\* Transaction::Ping and Transaction::Interface: '_PNG' and '_NTF' packed
PING_TRANSACTION == BytesI32(<<71, 78, 80, 95>>)
INTERFACE_TRANSACTION == BytesI32(<<70, 84, 78, 95>>)

\* ServiceManagerFunctions
GetServiceCode == 1
AddServiceCode == 3

\* Transaction::FirstCall ..= Transaction::LastCall, the codes being u32
InCallRange(code) == ULe(1, code) /\ ULe(code, 16777215)

RECURSIVE DriverParse(_)
\* driver: the ref-count commands of a write buffer.  The size of a command's
\* argument is in bits 16..29 of its opcode.
DriverParse(bs) ==
    IF Len(bs) < 4 THEN <<>>
    ELSE LET cmd  == BytesI32(SubSeq(bs, 1, 4))
             size == bs[3] + 256 * (bs[4] % 64)
             rest == DriverParse(SubSeq(bs, 4 + size + 1, Len(bs)))
         IN  IF cmd \in {BC_INCREFS, BC_ACQUIRE, BC_RELEASE, BC_DECREFS}
                /\ Len(bs) >= 8
             THEN <<[cmd |-> cmd, handle |-> BytesI32(SubSeq(bs, 5, 8))]>> \o rest
             ELSE rest

\* ServiceManager::new: Binder::new, then ping, whose result is dropped
ServiceManagerNew ==
    /\ Usable
    /\ sm = "none"
    /\ LET td == transact_data(0, PING_TRANSACTION, 0, ParcelEmpty, HeapPtrs)
       IN  WriteRead(flush_buffer(queue_transaction(binder, BC_TRANSACTION, td, Zeros(4)),
                                  ParcelEmpty),
                     "ping",
                     Append(queued, Cmd("transact", 0, td, Zeros(4), ParcelEmpty)),
                     NoIoctl, Rest("returned"))
    /\ queued' = <<>>
    /\ sm' = "ready"
    /\ sent' = sent \o DriverParse(ioc'[1].write)
    /\ UNCHANGED <<build, svc, listener, user>>

\* ServiceManager::get_service(service_name, interface_name).  It borrows the
\* manager for good.
GetService(names) ==
    /\ Usable
    /\ sm = "ready"
    /\ \E n \in names, junk \in Beyond :
        LET parcel == write_str16(write_interface_token(ParcelEmpty,
                                      SERVICE_MANAGER_INTERFACE_TOKEN), n.service_name)
            td     == transact_data(0, GetServiceCode, 0, parcel, HeapPtrs)
        IN  /\ WriteRead(flush_buffer(queue_transaction(binder, BC_TRANSACTION, td, Zeros(4)),
                                      ParcelEmpty),
                         "get_service",
                         Append(queued, Cmd("transact", 0, td, Zeros(4), parcel)),
                         NoIoctl,
                         [kind |-> "get_service", layout |-> build, junk |-> junk])
            /\ svc' = IF ret'.kind # "ok" THEN NoService
                      ELSE [state |-> "live",
                            handle |-> ReplyHandle(ret'.parcel, build, junk),
                            interface_name |-> n.interface_name]
            /\ queued' = IF ret'.kind # "ok" THEN <<>>
                         ELSE LET h == ReplyHandle(ret'.parcel, build, junk)
                              IN  << Cmd("add_ref", h, NoTransactionData, <<>>, ParcelEmpty),
                                     Cmd("acquire", h, NoTransactionData, <<>>, ParcelEmpty) >>
    /\ sm' = "lent"
    /\ sent' = sent \o DriverParse(ioc'[1].write)
    /\ UNCHANGED <<build, listener, user>>

\* Service::call(function_index, data): a non-zero status panics, and the
\* Service is dropped as the panic unwinds
Call(args) ==
    /\ Usable
    /\ svc.state = "live"
    /\ \E a \in args :
        LET token  == write_interface_token(ParcelEmpty, svc.interface_name)
            parcel == IF Len(a.data.data) > 0 THEN append_parcel(token, a.data) ELSE token
            td     == transact_data(svc.handle, a.function_index, 0, parcel, HeapPtrs)
        IN  WriteRead(flush_buffer(queue_transaction(binder, BC_TRANSACTION, td, Zeros(4)),
                                   ParcelEmpty),
                      "call",
                      Append(queued, Cmd("transact", svc.handle, td, Zeros(4), parcel)),
                      NoIoctl, Rest("call"))
    /\ queued' = <<>>
    /\ svc' = IF binder'.panicking THEN [svc EXCEPT !.state = "dropped"] ELSE svc
    /\ sent' = sent \o DriverParse(ioc'[1].write)
    /\ UNCHANGED <<build, sm, listener, user>>

\* the Service goes out of scope: it has no Drop, nothing is queued or sent
DropService ==
    /\ Usable
    /\ svc.state = "live"
    /\ svc' = [svc EXCEPT !.state = "dropped"]
    /\ op' = [name |-> "drop_service", log |-> <<>>]
    /\ ioc' = NoIoctl
    /\ ret' = NoRet
    /\ UNCHANGED <<binder, todo, mem, queued, build, sm, listener, sent, looper, user>>

\* Parcel::write_bool
write_bool(p, b) == write_u32(p, IF b THEN 1 ELSE 0)

\* where the ServiceManager lives: self as *const _ as usize
StackPtrs == [manager |-> 12288]

\* ServiceManager::register_service(delegate, name, interface_name,
\* allow_isolated, dump_priority): enter_looper, then AddService.  It borrows
\* the manager for good.
RegisterService(args, pads) ==
    /\ Usable
    /\ sm = "ready"
    /\ \E a \in args, pad \in pads :
        LET object == BinderFlatObjectNew(TF_BINDER, StackPtrs.manager, 0, 0)
            named  == write_str16(write_interface_token(ParcelEmpty,
                                      SERVICE_MANAGER_INTERFACE_TOKEN), a.name)
            parcel == write_u32(write_bool(write_u32(
                          write_object(named, FlatObjectBytes(object, build, pad)),
                          StabilitySystem), a.allow_isolated), a.dump_priority)
            td     == transact_data(0, AddServiceCode, 0, parcel, HeapPtrs)
        IN  /\ WriteRead(flush_buffer(queue_transaction(binder, BC_TRANSACTION, td, Zeros(4)),
                                      ParcelEmpty),
                         "register_service",
                         Append(queued, Cmd("transact", 0, td, Zeros(4), parcel)),
                         <<Ioctl(write_i32(ParcelEmpty, BC_ENTER_LOOPER).data, 0, 0)>>,
                         Rest("unwrapped"))
            /\ listener' = IF ret'.kind # "ok" THEN NoListener
                           ELSE [NoListener EXCEPT !.state = "running",
                                                   !.interface_name = a.interface_name]
    /\ queued' = <<>>
    /\ sm' = "lent"
    /\ sent' = sent \o DriverParse(ioc'[2].write)
    /\ UNCHANGED <<build, svc, user>>

\* ServiceListener::run, the head of an iteration: do_write_read of an empty
\* parcel
ListenerPoll ==
    /\ Usable
    /\ listener.state = "running"
    /\ ~listener.some
    /\ WriteRead(flush_buffer(binder, ParcelEmpty), "run",
                 Append(queued, Cmd("do_write_read", 0, NoTransactionData, <<>>,
                                    ParcelEmpty)),
                 NoIoctl, Rest("unwrapped"))
    /\ listener' = IF ret'.kind # "ok"
                   THEN [NoListener EXCEPT !.state = "dead",
                                           !.interface_name = listener.interface_name]
                   ELSE [listener EXCEPT !.some = ret'.some, !.td = ret'.td,
                                         !.parcel = ret'.parcel, !.handled = <<>>]
    /\ queued' = <<>>
    /\ sent' = sent \o DriverParse(ioc'[1].write)
    /\ UNCHANGED <<build, sm, svc, user>>

\* ServiceListener::run, the rest of an iteration that got Some(transaction):
\* a code in the call range goes to the delegate, whose answer is one of
\* replies; the match on any other code has the arm `Interface`, an
\* identifier pattern, which takes them all.  The arguments of reply are
\* evaluated in order: process_request, then transaction.flags(), which
\* unwraps from_bits.
ListenerDispatch(replies) ==
    /\ Usable
    /\ listener.state = "running"
    /\ listener.some
    /\ \E r \in replies :
        LET td      == listener.td
            inrange == InCallRange(td.code)
            tok     == read_interface_token(listener.parcel)
            matches == tok.kind = "ok" /\ tok.val = listener.interface_name
            handled == IF inrange /\ matches
                       THEN <<[code |-> td.code, data |-> tok.p, reply |-> r]>>
                       ELSE <<>>
            out     == IF inrange THEN r
                       ELSE write_str16(ParcelEmpty, listener.interface_name)
            fl      == from_bits(td.flags)
            rtd     == reply_data(fl.bits, out, HeapPtrs)
            dead    == [NoListener EXCEPT !.state = "dead",
                                          !.interface_name = listener.interface_name,
                                          !.handled = handled]
        IN  IF (inrange /\ ~matches) \/ ~fl.some
            THEN /\ binder' = [binder EXCEPT !.panicking = TRUE]
                 /\ listener' = dead
                 /\ op' = [name |-> "dispatch", log |-> <<>>]
                 /\ ioc' = NoIoctl
                 /\ ret' = [NoRet EXCEPT !.kind = "panic"]
                 /\ sent' = sent
                 /\ UNCHANGED <<todo, mem, queued, looper>>
            ELSE /\ WriteRead(flush_buffer(queue_transaction(binder, BC_REPLY, rtd, Zeros(4)),
                                           ParcelEmpty),
                              "dispatch",
                              Append(queued, Cmd("reply", 0, rtd, Zeros(4), out)),
                              NoIoctl, Rest("returned"))
                 /\ listener' = IF binder'.panicking THEN dead
                                ELSE [NoListener EXCEPT
                                        !.state = "running",
                                        !.interface_name = listener.interface_name,
                                        !.handled = handled]
                 /\ queued' = <<>>
                 /\ sent' = sent \o DriverParse(ioc'[1].write)
    /\ UNCHANGED <<build, sm, svc, user>>

\* the ServiceManager goes out of scope, after whatever borrowed it: its
\* Binder is dropped
DropManager ==
    /\ sm # "none"
    /\ svc.state # "live"
    /\ listener.state # "running"
    /\ Drop

(***************************************************************************)
(* SpecInbound: calls of one shape against a driver that may queue any of  *)
(* the return frames, and hand them over split in any way.                 *)
(***************************************************************************)
CallArgs(handle, code, flags, data) ==
    [handle |-> handle, code |-> code, flags |-> flags, data |-> data, ptrs |-> HeapPtrs]

NextInbound ==
    \/ DriverPost(InboundFrames)
    \/ Transact({CallArgs(0, 1, 0, ParcelEmpty)}, {Zeros(4)})
    \/ Reply({CallArgs(0, 0, 0, ParcelEmpty)}, {Zeros(4)})
    \/ DoWriteRead({ParcelEmpty})

SpecInbound == Init /\ [][NextInbound]_vars

(***************************************************************************)
(* SpecOutbound: every way of queueing commands and flushing them, against *)
(* a driver that answers with a no-op or a reply.                          *)
(***************************************************************************)
RefHandles == {7}

\* a parcel holding a word, then an object position, then a word
DataWithObject == write_u32(push_object(write_u32(ParcelEmpty, 0)), 42)

TransactArgs ==
    { CallArgs(0, 1, 0, ParcelEmpty), CallArgs(1, 2, TF_OneWay, DataWithObject) }

ReplyArgs == { CallArgs(0, 0, TF_AcceptFds, DataWithObject), CallArgs(0, 0, 0, ParcelEmpty) }

OutParcels == { write_i32(ParcelEmpty, BC_ENTER_LOOPER) }

OutboundFrames ==
    { BareFrame(BR_NOOP), DescriptorFrame(BR_REPLY, DriverDescriptor(Layout.s1, 0, 0)) }

NextOutbound ==
    \/ DriverPost(OutboundFrames)
    \/ \E h \in RefHandles : RefCall("add_ref", h)
    \/ \E h \in RefHandles : RefCall("dec_ref", h)
    \/ \E h \in RefHandles : RefCall("acquire", h)
    \/ \E h \in RefHandles : RefCall("release", h)
    \/ Transact(TransactArgs, Pads)
    \/ Reply(ReplyArgs, {Zeros(4)})
    \/ DoWriteRead(OutParcels)
    \/ EnterLooper
    \/ Drop

SpecOutbound == Init /\ [][NextOutbound]_vars

(***************************************************************************)
(* SpecService: a client that looks a service up, calls it, lets the       *)
(* Service go and then the ServiceManager.                                 *)
(***************************************************************************)
\* "hi", served through the interface "IM"
Lookups == { [service_name |-> <<104, 105>>, interface_name |-> InterfaceName] }

ServiceCalls ==
    { [function_index |-> 1, data |-> ParcelEmpty],
      [function_index |-> 2, data |-> DataWithObject] }

ServiceFrames ==
    { BareFrame(BR_NOOP), BareFrame(BR_TRANSACTION_COMPLETE),
      DescriptorFrame(BR_REPLY, DriverDescriptor(Layout.obj, 0, 0)),
      DescriptorFrame(BR_REPLY, DriverDescriptor(Layout.s1, 0, 0)) }

InitService == InitBuild(FlatLayouts)

NextService ==
    \/ DriverPost(ServiceFrames)
    \/ ServiceManagerNew
    \/ GetService(Lookups)
    \/ Call(ServiceCalls)
    \/ DropService
    \/ DropManager

SpecService == InitService /\ [][NextService]_vars

(***************************************************************************)
(* SpecListener: a process that registers a service and runs its listener  *)
(* against peers that call it with its interface or another, with flags    *)
(* this library defines or not, and with a code outside the call range.    *)
(***************************************************************************)
\* "hi", served through "IM"
Registrations ==
    { [name |-> <<104, 105>>, interface_name |-> InterfaceName,
       allow_isolated |-> TRUE, dump_priority |-> 8] }

\* what the delegate answers: a status word, or a parcel with an object
HandlerReplies == { write_u32(ParcelEmpty, 0), DataWithObject }

\* the kernel passes the sender's flags on; 64 is TF_UPDATE_TXN, a flag of the
\* driver that TransactionFlags does not define
\* the codes: two calls, '_NTF' and '_PNG'
ListenerFrames ==
    { BareFrame(BR_NOOP), BareFrame(BR_TRANSACTION_COMPLETE),
      DescriptorFrame(BR_TRANSACTION, DriverDescriptor(Layout.call, 1, TF_AcceptFds)),
      DescriptorFrame(BR_TRANSACTION, DriverDescriptor(Layout.call, 2, TF_AcceptFds + 64)),
      DescriptorFrame(BR_TRANSACTION, DriverDescriptor(Layout.other, 1, TF_AcceptFds)),
      DescriptorFrame(BR_TRANSACTION,
                      DriverDescriptor(Layout.call, INTERFACE_TRANSACTION, TF_AcceptFds)),
      DescriptorFrame(BR_TRANSACTION,
                      DriverDescriptor(Layout.call, PING_TRANSACTION, TF_AcceptFds)) }

NextListener ==
    \/ DriverPost(ListenerFrames)
    \/ ServiceManagerNew
    \/ RegisterService(Registrations, {Zeros(4)})
    \/ ListenerPoll
    \/ ListenerDispatch(HandlerReplies)
    \/ DropManager

SpecListener == InitService /\ [][NextListener]_vars

(***************************************************************************)
(* Properties.                                                             *)
(***************************************************************************)
\* the frames the driver handed over in a step that issued a read
Delivered == SubSeq(todo, 1, Len(todo) - Len(todo'))

FlushNames == {"transact", "reply", "do_write_read"}

IsDescriptorFrame(f) == f.cmd \in {BR_REPLY, BR_TRANSACTION}

\* the payload buffer of the region a descriptor of the driver points at
BufferOf(td) ==
    IF td.data = Layout.s1.data THEN [data |-> BufS1, offsets |-> <<>>]
    ELSE [data |-> BufObj, offsets |-> <<4>>]

C2_TransactObservesReply ==
    (op.name = "transact" /\ ret.kind = "ok") => (ret.some \/ ret.printed # <<>>)

\* the command the driver must get back for a ref-count demand
DoneFor(f) ==
    I32Bytes(IF f.cmd = BR_INCREFS THEN BC_INCREFS_DONE ELSE BC_ACQUIRE_DONE) \o f.payload

ContainsBytes(hay, needle) ==
    \E i \in 0..(Len(hay) - Len(needle)) : SubSeq(hay, i + 1, i + Len(needle)) = needle

\* C3 (as claimed): when the frames of a flush hold IncRefs (Acquire) for an
\* object, ahead of any frame that ends the processing, IncRefsDone
\* (AcquireDone) for that object is in pending-out when the call is over.
C3_RefDemandAnswered ==
    [][ \A i \in 1..Len(Delivered) :
          ( /\ op'.name \in FlushNames
            /\ Delivered[i].cmd \in {BR_INCREFS, BR_ACQUIRE}
            /\ \A j \in 1..(i - 1) :
                  ~IsDescriptorFrame(Delivered[j]) /\ Delivered[j].cmd \notin TerminalReplies )
          => ContainsBytes(binder'.pending_out_data.data, DoneFor(Delivered[i])) ]_vars

\* C4 (as claimed): when a call returns Ok, every byte the ioctl placed in the
\* inbound buffer has been consumed.
C4_InboundDrained ==
    (op.name \in FlushNames /\ ret.kind = "ok") => ret.unread = 0

RefOpcode(call) ==
    CASE call = "add_ref" -> BC_INCREFS
      [] call = "dec_ref" -> BC_DECREFS
      [] call = "acquire" -> BC_ACQUIRE
      [] call = "release" -> BC_RELEASE

RefNames == {"add_ref", "dec_ref", "acquire", "release"}

\* the bytes a queued command stands for on the wire
WireBytes(c) ==
    CASE c.call \in RefNames -> I32Bytes(RefOpcode(c.call)) \o I32Bytes(c.handle)
      [] c.call = "transact" -> I32Bytes(BC_TRANSACTION) \o TransactionDataBytes(c.td, c.pad)
      [] c.call = "reply" -> I32Bytes(BC_REPLY) \o TransactionDataBytes(c.td, c.pad)
      [] c.call = "do_write_read" -> c.parcel.data

\* C5: the write buffer of a flush is the concatenation, in call order, of the
\* commands queued since the last flush, then the Transaction or Reply opcode
\* with its descriptor, then the bytes of parcel_out.
C5_OutboundInCallOrder ==
    op.name \in FlushNames =>
        /\ Len(ioc) = 1
        /\ ioc[1].write = Flatten([i \in 1..Len(op.log) |-> WireBytes(op.log[i])])

\* C5 witness: add_ref, then release, then a transact that flushed the three
C5_Witness ==
    /\ op.name = "transact"
    /\ Len(op.log) = 3
    /\ op.log[1].call = "add_ref" /\ op.log[2].call = "release"
    /\ Len(ioc[1].write) = 8 + 8 + 4 + SizeOfTransactionData

\* C6: a ref-count mutator issues no system call and changes pending-out only,
\* by appending its 4-byte opcode and the 4-byte handle.
C6_RefCallOnlyQueues ==
    [][ op'.name \in RefNames =>
          /\ ioc' = NoIoctl
          /\ todo' = todo /\ mem' = mem
          /\ binder'.fd = binder.fd /\ binder'.panicking = binder.panicking
          /\ binder'.pending_out_data.offsets = binder.pending_out_data.offsets
          /\ binder'.pending_out_data.data =
                binder.pending_out_data.data \o I32Bytes(RefOpcode(op'.name))
                \o I32Bytes(queued'[Len(queued')].handle) ]_vars

\* C6 witness: release(7) queued behind another command, nothing sent
C6_Witness ==
    /\ op.name = "release"
    /\ Len(queued) = 2
    /\ Len(binder.pending_out_data.data) = 16
    /\ ioc = NoIoctl

\* C8 (as claimed): when the frames of a call hold Error(e) ahead of any Reply /
\* Transaction frame, the call does not return Ok.
C8_ErrorSurfaced ==
    [][ ( /\ op'.name \in FlushNames
          /\ \E i \in 1..Len(Delivered) :
                /\ Delivered[i].cmd = BR_ERROR
                /\ \A j \in 1..(i - 1) :
                      ~IsDescriptorFrame(Delivered[j])
                      /\ Delivered[j].cmd \notin TerminalReplies )
        => ret'.kind # "ok" ]_vars

\* C9: when the frames of a call hold DeadReply or FailedReply ahead of any
\* Reply / Transaction frame, the call panics: it returns neither
\* (Some, parcel) nor (None, empty), whatever frames follow.
C9_DeadOrFailedIsTerminal ==
    [][ ( /\ op'.name \in FlushNames
          /\ \E i \in 1..Len(Delivered) :
                /\ Delivered[i].cmd \in {BR_DEAD_REPLY, BR_FAILED_REPLY}
                /\ \A j \in 1..(i - 1) : ~IsDescriptorFrame(Delivered[j]) )
        => (ret'.kind = "panic" /\ binder'.panicking) ]_vars

\* C9 witness: transact panicked on a terminal frame that was not alone
C9_Witness ==
    /\ op.name = "transact"
    /\ ret.kind = "panic"
    /\ ioc[1].read_consumed > 4

Count(seq, x) == Cardinality({i \in 1..Len(seq) : seq[i] = x})

Received(cmd, handle) == Count(sent, [cmd |-> cmd, handle |-> handle])

\* C7 (as claimed): once the Service that get_service returned for handle h
\* has been dropped and the client torn down, the driver has received
\* Release(h) and DecRefs(h), as many as Acquire(h) and IncRefs(h).
C7_HandleReleased ==
    (svc.state = "dropped" /\ binder.fd = "closed") =>
        /\ Received(BC_RELEASE, svc.handle) >= 1
        /\ Received(BC_DECREFS, svc.handle) >= 1
        /\ Received(BC_RELEASE, svc.handle) = Received(BC_ACQUIRE, svc.handle)
        /\ Received(BC_DECREFS, svc.handle) = Received(BC_INCREFS, svc.handle)

\* the interface name a peer put in the payload a descriptor points at
CallerInterface(td) ==
    IF td.data = Layout.call.data THEN InterfaceName ELSE OtherName

\* C10 (as claimed): run, given a Transaction whose code is in
\* [1, 0x00ffffff]: when the token names the listener's interface, the
\* delegate is invoked once with the code and the payload behind the token,
\* and one Reply goes out with the delegate's parcel and the flags of the
\* transaction; when the token names another interface, the delegate is not
\* invoked.
C10_ListenerDispatch ==
    [][ (op'.name = "dispatch" /\ InCallRange(listener.td.code)) =>
          IF CallerInterface(listener.td) = listener.interface_name
          THEN /\ Len(listener'.handled) = 1
               /\ listener'.handled[1].code = listener.td.code
               /\ listener'.handled[1].data.data = BufCall(InterfaceName)
               /\ listener'.handled[1].data.pos = Len(BufCall(InterfaceName)) - 4
               /\ Len(ioc') = 1
               /\ Len(op'.log) = 1
               /\ op'.log[1].call = "reply"
               /\ op'.log[1].parcel = listener'.handled[1].reply
               /\ op'.log[1].td.flags = listener.td.flags
               /\ ioc'[1].write = WireBytes(op'.log[1])
          ELSE listener'.handled = <<>> ]_vars

\* bit b (a power of two) of the u32 that x stands for, x >= 0
HasBit(x, b) == (x \div b) % 2 = 1

\* C11 (as claimed): run, given a Transaction whose code is '_NTF', sends a
\* Reply whose parcel is a status word 0 and then the str16 interface name,
\* with AcceptFds among the flags of its descriptor.
C11_InterfaceReply ==
    [][ (op'.name = "dispatch" /\ listener.td.code = INTERFACE_TRANSACTION) =>
          /\ Len(op'.log) = 1
          /\ op'.log[1].call = "reply"
          /\ op'.log[1].parcel.data = I32Bytes(0) \o WireStr16(listener.interface_name)
          /\ HasBit(op'.log[1].td.flags, TF_AcceptFds)
          /\ ioc'[1].write = WireBytes(op'.log[1]) ]_vars

\* the first Reply / Transaction frame among frames, as a sequence of at most
\* one frame
FirstDescriptor(frames) ==
    LET I == {i \in 1..Len(frames) : IsDescriptorFrame(frames[i])}
    IN  IF I = {} THEN <<>> ELSE <<frames[CHOOSE i \in I : \A j \in I : i <= j]>>

\* C12: Service::call returns a parcel exactly when the reply it was handed
\* starts with a status word of 0, and the parcel returned is that reply with
\* its cursor right behind the status word; otherwise the call panics and
\* returns nothing.
C12_CallStatus ==
    [][ op'.name = "call" =>
          LET d     == FirstDescriptor(Delivered)
              reply == IF d = <<>> THEN <<>> ELSE BufferOf(d[1].td).data
              zero  == Len(reply) >= 4 /\ SubSeq(reply, 1, 4) = I32Bytes(0)
          IN  /\ (ret'.kind = "ok") <=> zero
              /\ zero => (ret'.parcel.data = reply /\ ret'.parcel.pos = 4
                          /\ ~binder'.panicking)
              /\ ~zero => (ret'.kind = "panic" /\ ret'.parcel = ParcelEmpty
                           /\ binder'.panicking) ]_vars

\* C12 witness: a call that returned the object reply, read past its status
C12_Witness ==
    /\ op.name = "call"
    /\ ret.kind = "ok"
    /\ ret.parcel.data = BufObj /\ ret.parcel.pos = 4
    /\ svc.state = "live"

\* an interface token on the wire
WireToken(name) ==
    I32Bytes(StrictModePolicy) \o I32Bytes(-1) \o I32Bytes(HEADER) \o WireStr16(name)

\* C13 (as claimed): the payload Service::call submits is the interface token
\* of the service's interface and then the caller's data, the caller's
\* offsets moved up by the length of the token, under a descriptor whose flags
\* are AcceptFds | CollectNotedAppOps.
C13_CallPayload ==
    [][ op'.name = "call" =>
          LET c == op'.log[Len(op'.log)]
          IN  /\ c.call = "transact"
              /\ c.td.target = svc.handle
              /\ \E a \in ServiceCalls :
                    /\ c.td.code = a.function_index
                    /\ c.parcel.data = WireToken(svc.interface_name) \o a.data.data
                    /\ c.parcel.offsets =
                          [i \in 1..Len(a.data.offsets) |->
                              a.data.offsets[i] + Len(WireToken(svc.interface_name))]
              /\ c.td.data_size = Len(c.parcel.data)
              /\ c.td.flags = TF_AcceptFds + TF_CollectNotedAppOps ]_vars

(***************************************************************************)
(* The rest of the Parcel interface, for a Parcel in the hands of a user   *)
(* of the library.                                                         *)
(***************************************************************************)
set_position(p, pos) == [p EXCEPT !.pos = pos]

write_u8(p, x) == CursorWrite(p, <<x>>)

write_u16(p, x) == CursorWrite(p, LE(x, 2))

\* Parcel::write_usize: always a 64-bit word
write_usize(p, x) == CursorWrite(p, U64Bytes(x))

\* the bytes of the character c in UTF-8
Utf8Bytes(c) ==
    IF c < 128 THEN <<c>>
    ELSE IF c < 2048 THEN <<192 + (c \div 64), 128 + (c % 64)>>
    ELSE IF c < 65536
    THEN <<224 + (c \div 4096), 128 + ((c \div 64) % 64), 128 + (c % 64)>>
    ELSE <<240 + (c \div 262144), 128 + ((c \div 4096) % 64),
           128 + ((c \div 64) % 64), 128 + (c % 64)>>

RECURSIVE bytes(_)
\* str::bytes
bytes(str) == IF str = <<>> THEN <<>> ELSE Utf8Bytes(Head(str)) \o bytes(Tail(str))

IsContinuation(b) == b >= 128 /\ b < 192

RECURSIVE from_utf8(_)
\* String::from_utf8: the characters, or an error on bytes that are not UTF-8
from_utf8(bs) ==
    IF \A i \in 1..Len(bs) : bs[i] < 128 THEN [ok |-> TRUE, val |-> bs]
    ELSE
    LET b == bs[1]
        n == IF b < 128 THEN 1 ELSE IF b >= 194 /\ b < 224 THEN 2
             ELSE IF b >= 224 /\ b < 240 THEN 3
             ELSE IF b >= 240 /\ b < 245 THEN 4 ELSE 0
    IN  IF n = 0 \/ Len(bs) < n \/ \E i \in 2..n : ~IsContinuation(bs[i])
        THEN [ok |-> FALSE, val |-> <<>>]
        ELSE
        LET c == IF n = 1 THEN b
                 ELSE IF n = 2 THEN (b - 192) * 64 + (bs[2] - 128)
                 ELSE IF n = 3
                 THEN (b - 224) * 4096 + (bs[2] - 128) * 64 + (bs[3] - 128)
                 ELSE (b - 240) * 262144 + (bs[2] - 128) * 4096
                      + (bs[3] - 128) * 64 + (bs[4] - 128)
            valid == /\ n = 3 => (c >= 2048 /\ ~(c >= 55296 /\ c <= 57343))
                     /\ n = 4 => (c >= 65536 /\ c <= 1114111)
            rest == from_utf8(SubSeq(bs, n + 1, Len(bs)))
        IN  IF ~valid THEN [ok |-> FALSE, val |-> <<>>]
            ELSE [ok |-> rest.ok, val |-> IF rest.ok THEN <<c>> \o rest.val ELSE <<>>]

\* Parcel::write_str
write_str(p, string) ==
    LET s8     == bytes(string) \o <<0>>
        padded == IF Len(s8) % 4 # 0 THEN s8 \o Zeros(4 - (Len(s8) % 4)) ELSE s8
    IN  CursorWrite(write_i32(p, StrLen(string)), padded)

\* Parcel::read_str; kind is "ok", "err" (Err returned) or "panic"
read_str(p) ==
    LET n == read_i32(p) IN
    IF ~n.ok THEN [kind |-> "err", val |-> <<>>, p |-> n.p]
    ELSE
    LET len == n.val + 1 IN
    IF len = 0 THEN [kind |-> "ok", val |-> <<>>, p |-> n.p]
    ELSE IF len < 0 THEN [kind |-> "panic", val |-> <<>>, p |-> n.p]
    ELSE
    LET r   == read(n.p, len)
        res == from_utf8(r.val)
    IN  IF ~res.ok THEN [kind |-> "err", val |-> <<>>, p |-> r.p]
        ELSE LET t == truncate(res.val, len - 1)
             IN  IF t.ok THEN [kind |-> "ok", val |-> t.val, p |-> r.p]
                 ELSE [kind |-> "panic", val |-> <<>>, p |-> r.p]

\* 'f','d','*',0x85 packed: the tag of a file descriptor
TF_FD == BytesI32(<<133, 42, 100, 102>>)

\* the derived Parcelable::serialize of BinderFlatObject: the fields, each
\* through its own serialize, in the order of declaration.  The derive reads
\* no attribute of the struct.
serialize_BinderFlatObject(p, obj) ==
    write_u32(write_usize(write_usize(write_u32(write_u32(p,
        obj.binder_type), obj.flags), obj.handle), obj.cookie), obj.stability)

\* BinderFd::new and the derived serialize of BinderFd
BinderFdNew(binder_type, handle, cookie, flags) ==
    [binder_type |-> binder_type, flags |-> flags, handle |-> handle, cookie |-> cookie]

serialize_BinderFd(p, obj) ==
    write_usize(write_usize(write_u32(write_u32(p,
        obj.binder_type), obj.flags), obj.handle), obj.cookie)

\* Parcel::write_binder
write_binder(p, object) ==
    serialize_BinderFlatObject(p, BinderFlatObjectNew(TF_BINDER, object, 0, 0))

\* Parcel::write_file_descriptor
write_file_descriptor(p, fd, take_ownership) ==
    serialize_BinderFlatObject(p,
        BinderFlatObjectNew(TF_FD, fd, IF take_ownership THEN 1 ELSE 0, 383))

(***************************************************************************)
(* SpecParcel: a user builds a Parcel by any MaxOps operations of the      *)
(* interface.                                                              *)
(***************************************************************************)
MaxOps == 3

client == <<binder, todo, mem, op, ioc, ret, queued, looper>>

\* one operation on the user's parcel: its name, its argument, the parcel
\* passed in, the parcel afterwards, and the flat objects then on record
UserStep(name, arg, other, after, objs) ==
    /\ user_op.n < MaxOps
    /\ user_parcel' = after
    /\ user_op' = [NoUserOp EXCEPT !.name = name, !.arg = arg, !.before = user_parcel,
                                   !.other = other, !.n = user_op.n + 1, !.objs = objs]
    /\ UNCHANGED <<client, service>>

\* a flat object written at the cursor of p
ObjectAt(p, bs) == [at |-> p.pos, bytes |-> bs]

UFromSlice(slices) ==
    \E bs \in slices : UserStep("from_slice", bs, ParcelEmpty, from_slice(bs), {})

\* the cursor moved back to the start, or anywhere up to the end
USetPosition ==
    \E pos \in 0..Len(user_parcel.data) :
        UserStep("set_position", pos, ParcelEmpty, set_position(user_parcel, pos),
                 user_op.objs)

UReset == UserStep("reset", <<>>, ParcelEmpty, reset(user_parcel), {})

UWriteU8(xs) ==
    \E x \in xs : UserStep("write_u8", x, ParcelEmpty, write_u8(user_parcel, x),
                           user_op.objs)

UWriteU16(xs) ==
    \E x \in xs : UserStep("write_u16", x, ParcelEmpty, write_u16(user_parcel, x),
                           user_op.objs)

UWriteU32(xs) ==
    \E x \in xs : UserStep("write_u32", x, ParcelEmpty, write_u32(user_parcel, x),
                           user_op.objs)

UWrite(slices) ==
    \E bs \in slices : UserStep("write", bs, ParcelEmpty, write(user_parcel, bs),
                                user_op.objs)

UWriteStr16(strings) ==
    \E s \in strings : UserStep("write_str16", s, ParcelEmpty,
                                write_str16(user_parcel, s), user_op.objs)

UWriteStr(strings) ==
    \E s \in strings : UserStep("write_str", s, ParcelEmpty,
                                write_str(user_parcel, s), user_op.objs)

UPushObject == UserStep("push_object", <<>>, ParcelEmpty, push_object(user_parcel),
                        user_op.objs)

UWriteObject(objects, pads) ==
    \E obj \in objects, pad \in pads :
        LET bs == FlatObjectBytes(obj, build, pad)
        IN  UserStep("write_object", bs, ParcelEmpty, write_object(user_parcel, bs),
                     user_op.objs \cup {ObjectAt(user_parcel, bs)})

UWriteBinder(ptrs) ==
    \E object \in ptrs :
        LET after == write_binder(user_parcel, object)
        IN  UserStep("write_binder", object, ParcelEmpty, after,
                     user_op.objs \cup
                        {ObjectAt(user_parcel,
                                  SubSeq(after.data, user_parcel.pos + 1, after.pos))})

UWriteFileDescriptor(fds) ==
    \E fd \in fds, take_ownership \in BOOLEAN :
        LET after == write_file_descriptor(user_parcel, fd, take_ownership)
        IN  UserStep("write_file_descriptor", <<fd, take_ownership>>, ParcelEmpty, after,
                     user_op.objs \cup
                        {ObjectAt(user_parcel,
                                  SubSeq(after.data, user_parcel.pos + 1, after.pos))})

USerializeFd(fds) ==
    \E fd \in fds :
        LET after == serialize_BinderFd(user_parcel, BinderFdNew(TF_FD, fd, 0, 383))
        IN  UserStep("serialize_fd", fd, ParcelEmpty, after,
                     user_op.objs \cup
                        {ObjectAt(user_parcel,
                                  SubSeq(after.data, user_parcel.pos + 1, after.pos))})

\* the other parcel comes with the flat objects it holds; they land where its
\* bytes are written
UAppendParcel(others) ==
    \E o \in others :
        UserStep("append_parcel", <<>>, o.parcel, append_parcel(user_parcel, o.parcel),
                 user_op.objs \cup
                    { [at |-> r.at + user_parcel.pos, bytes |-> r.bytes] : r \in o.objs })

Slices == { <<>>, <<170>>, <<1, 2, 3, 4, 5, 6, 7, 8>> }

\* "", "a", "ab", and one character each of two, three and four UTF-8 bytes,
\* the last a surrogate pair in UTF-16
Strings == { <<>>, <<97>>, <<97, 98>>, <<233>>, <<8364>>, <<119070>> }

UserObject == BinderFlatObjectNew(TF_BINDER, 4096, 0, 0)

\* parcels to append: freshly written, holding a flat object, read to the
\* end and rewound, built from a slice with an offset pushed, and reset
Others ==
    { [parcel |-> write_u32(ParcelEmpty, 7), objs |-> {}],
      [parcel |-> write_object(write_u32(ParcelEmpty, 0),
                               FlatObjectBytes(UserObject, "declared", Zeros(4))),
       objs |-> {[at |-> 4, bytes |-> FlatObjectBytes(UserObject, "declared", Zeros(4))]}],
      [parcel |-> set_position(write_u32(ParcelEmpty, 9), 0), objs |-> {}],
      [parcel |-> push_object(set_position(from_slice(<<187, 204>>), 1)), objs |-> {}],
      [parcel |-> reset(write_u32(ParcelEmpty, 7)), objs |-> {}] }

NextParcel ==
    \/ UFromSlice(Slices)
    \/ USetPosition
    \/ UReset
    \/ UWriteU8({255})
    \/ UWriteU16({258})
    \/ UWriteU32({7})
    \/ UWrite(Slices)
    \/ UWriteStr16(Strings)
    \/ UWriteStr(Strings)
    \/ UPushObject
    \/ UWriteObject({UserObject}, {Zeros(4)})
    \/ UWriteBinder({4096})
    \/ UWriteFileDescriptor({3})
    \/ USerializeFd({3})
    \/ UAppendParcel(Others)

SpecParcel == Init /\ [][NextParcel]_vars

(***************************************************************************)
(* SpecWrites: a Parcel built from empty by writes alone.                  *)
(***************************************************************************)
NextWrites ==
    \/ UWriteU8({255})
    \/ UWriteU16({258})
    \/ UWriteU32({7})
    \/ UWrite(Slices)
    \/ UWriteStr16(Strings)
    \/ UWriteStr(Strings)

SpecWrites == Init /\ [][NextWrites]_vars

(***************************************************************************)
(* Parcelable.  A type is a tuple: <<"u8">>, ..., <<"Option", T>>,         *)
(* <<"Box", T>>, <<"Vec", T>>, <<"HashMap", K, V>>.  Its values: an        *)
(* integer, a boolean, a string, <<>> or <<v>> for an Option, <<v>> for a  *)
(* Box, a sequence for a Vec, a set of <<key, value>> for a HashMap.       *)
(* A 32-bit value is the i32 its word denotes, a 64-bit value (i64, u64,   *)
(* usize) is its word, 8 bytes least significant first.                    *)
(***************************************************************************)
\* `as u8` and `as u16` of a signed value, `as i8` and `as i16` of what was read
AsU8(v) == v % 256
AsI8(b) == IF b >= 128 THEN b - 256 ELSE b
AsU16(v) == v % 65536
AsI16(w) == IF w >= 32768 THEN w - 65536 ELSE w

read_u8(p) ==
    LET r == CursorReadExact(p, 1)
    IN  [ok |-> r.ok, val |-> IF r.ok THEN r.val[1] ELSE 0, p |-> r.p]

read_u16(p) ==
    LET r == CursorReadExact(p, 2)
    IN  [ok |-> r.ok, val |-> IF r.ok THEN Val(r.val) ELSE 0, p |-> r.p]

\* the 64-bit word read, as its bytes
read_u64(p) ==
    LET r == CursorReadExact(p, 8)
    IN  [ok |-> r.ok, val |-> IF r.ok THEN r.val ELSE Zeros(8), p |-> r.p]

\* mutant: the branch for a 32-bit usize taken
read_usize_Narrow(p) ==
    LET r == read_u32(p)
    IN  [ok |-> r.ok, val |-> IF r.ok THEN I32Bytes(r.val) \o Zeros(4) ELSE Zeros(8),
         p |-> r.p]

\* Parcel::read_usize where usize has 8 bytes
read_usize(p) == read_u64(p)

PrimitiveTypes == {"u8", "i8", "u16", "i16", "i32", "u32", "i64", "u64", "usize"}

\* implement_primitve!: serialize writes *self as the wire type; the casts
\* between i64, u64 and usize keep the word
SerializePrimitive(p, name, v) ==
    CASE name = "u8" -> write_u8(p, v)
      [] name = "i8" -> write_u8(p, AsU8(v))
      [] name = "u16" -> write_u16(p, v)
      [] name = "i16" -> write_u16(p, AsU16(v))
      [] name = "i32" -> write_i32(p, v)
      [] name = "u32" -> write_u32(p, v)
      [] name \in {"i64", "u64", "usize"} -> CursorWrite(p, v)

\* implement_primitve!: deserialize reads the wire type and casts
DeserializePrimitive(p, name) ==
    LET r == CASE name \in {"u8", "i8"} -> read_u8(p)
               [] name \in {"u16", "i16"} -> read_u16(p)
               [] name = "i32" -> read_i32(p)
               [] name = "u32" -> read_u32(p)
               [] name \in {"i64", "u64"} -> read_u64(p)
               [] name = "usize" -> read_usize(p)
    IN  IF ~r.ok THEN [kind |-> "err", val |-> 0, p |-> r.p]
        ELSE [kind |-> "ok",
              val |-> CASE name = "i8" -> AsI8(r.val)
                        [] name = "i16" -> AsI16(r.val)
                        [] OTHER -> r.val,
              p |-> r.p]

RECURSIVE serialize(_, _, _)
RECURSIVE SerializeElements(_, _, _)
RECURSIVE SerializeEntries(_, _, _, _)
\* Parcelable::serialize of the value v of type ty into each parcel of ps: the
\* parcels that can result (a HashMap is written in the order it iterates,
\* which is any order)
serialize(ps, ty, v) ==
    CASE ty[1] \in PrimitiveTypes -> { SerializePrimitive(p, ty[1], v) : p \in ps }
      [] ty[1] = "bool" -> { write_i32(p, IF v THEN 1 ELSE 0) : p \in ps }
      [] ty[1] = "String" -> { write_str(p, v) : p \in ps }
      [] ty[1] = "String16" -> { write_str16(p, v) : p \in ps }
      [] ty[1] = "Option" ->
            IF v = <<>> THEN { write_i32(p, 0) : p \in ps }
            ELSE serialize({ write_i32(p, 1) : p \in ps }, ty[2], v[1])
      [] ty[1] = "Box" -> serialize(ps, ty[2], v[1])
      [] ty[1] = "Vec" ->
            SerializeElements({ write_i32(p, Len(v)) : p \in ps }, ty[2], v)
      [] ty[1] = "HashMap" ->
            SerializeEntries({ write_i32(p, Cardinality(v)) : p \in ps }, ty[2], ty[3], v)

SerializeElements(ps, ty, vs) ==
    IF vs = <<>> THEN ps
    ELSE SerializeElements(serialize(ps, ty, Head(vs)), ty, Tail(vs))

SerializeEntries(ps, kty, vty, entries) ==
    IF entries = {} THEN ps
    ELSE UNION { SerializeEntries(serialize(serialize(ps, kty, e[1]), vty, e[2]),
                                  kty, vty, entries \ {e}) : e \in entries }

\* HashMap::insert
Insert(map, k, v) == { e \in map : e[1] # k } \cup { <<k, v>> }

RECURSIVE deserialize(_, _)
RECURSIVE DeserializeElements(_, _, _, _)
RECURSIVE DeserializeEntries(_, _, _, _, _)
\* Parcelable::deserialize of a value of type ty; kind is "ok", "err" (Err
\* returned) or "panic"
deserialize(p, ty) ==
    CASE ty[1] \in PrimitiveTypes -> DeserializePrimitive(p, ty[1])
      [] ty[1] = "bool" ->
            LET r == read_i32(p)
            IN  IF r.ok THEN [kind |-> "ok", val |-> r.val # 0, p |-> r.p]
                ELSE [kind |-> "err", val |-> FALSE, p |-> r.p]
      [] ty[1] = "String" -> read_str(p)
      [] ty[1] = "String16" -> read_str16(p)
      [] ty[1] = "Option" ->
            LET prefix == read_i32(p)
            IN  IF ~prefix.ok THEN [kind |-> "err", val |-> <<>>, p |-> prefix.p]
                ELSE IF prefix.val # 0 /\ prefix.val # -1
                THEN LET r == deserialize(prefix.p, ty[2])
                     IN  [kind |-> r.kind,
                          val |-> IF r.kind = "ok" THEN <<r.val>> ELSE <<>>, p |-> r.p]
                ELSE [kind |-> "ok", val |-> <<>>, p |-> prefix.p]
      [] ty[1] = "Box" ->
            LET r == deserialize(p, ty[2])
            IN  [kind |-> r.kind, val |-> IF r.kind = "ok" THEN <<r.val>> ELSE <<>>,
                 p |-> r.p]
      [] ty[1] = "Vec" ->
            LET len == read_i32(p)
            IN  IF ~len.ok THEN [kind |-> "err", val |-> <<>>, p |-> len.p]
                ELSE IF len.val < 0 THEN [kind |-> "panic", val |-> <<>>, p |-> len.p]
                ELSE DeserializeElements(len.p, ty[2], len.val, <<>>)
      [] ty[1] = "HashMap" ->
            LET len == read_i32(p)
            IN  IF ~len.ok THEN [kind |-> "err", val |-> {}, p |-> len.p]
                ELSE DeserializeEntries(len.p, ty[2], ty[3], len.val, {})

\* the loop of Vec::deserialize: n more elements pushed onto res
DeserializeElements(p, ty, n, res) ==
    IF n <= 0 THEN [kind |-> "ok", val |-> res, p |-> p]
    ELSE LET r == deserialize(p, ty)
         IN  IF r.kind # "ok" THEN [kind |-> r.kind, val |-> <<>>, p |-> r.p]
             ELSE DeserializeElements(r.p, ty, n - 1, Append(res, r.val))

\* the loop of HashMap::deserialize: n more entries inserted into res
DeserializeEntries(p, kty, vty, n, res) ==
    IF n <= 0 THEN [kind |-> "ok", val |-> res, p |-> p]
    ELSE LET k == deserialize(p, kty)
         IN  IF k.kind # "ok" THEN [kind |-> k.kind, val |-> {}, p |-> k.p]
             ELSE LET v == deserialize(k.p, vty)
                  IN  IF v.kind # "ok" THEN [kind |-> v.kind, val |-> {}, p |-> v.p]
                      ELSE DeserializeEntries(v.p, kty, vty, n - 1,
                                              Insert(res, k.val, v.val))

(***************************************************************************)
(* SpecParcelable: up to MaxValues values are serialized into an empty     *)
(* parcel, the cursor is set back to 0, and the values are deserialized in *)
(* the order they were written.                                            *)
(***************************************************************************)
MaxValues == 2

\* the values a user serializes, each with its type
Values ==
    << <<<<"u8">>, 255>>, <<<<"i8">>, -128>>, <<<<"i8">>, -1>>,
       <<<<"u16">>, 65535>>, <<<<"i16">>, -2>>,
       <<<<"i32">>, -1>>, <<<<"u32">>, 7>>,
       <<<<"i64">>, <<253, 255, 255, 255, 255, 255, 255, 255>>>>,
       <<<<"u64">>, <<0, 0, 1, 0, 0, 0, 0, 128>>>>,
       <<<<"usize">>, <<0, 16, 0, 0, 1, 0, 0, 0>>>>,
       <<<<"bool">>, TRUE>>, <<<<"bool">>, FALSE>>,
       <<<<"Option", <<"i32">>>>, <<>>>>, <<<<"Option", <<"i32">>>>, <<-1>>>>,
       <<<<"Option", <<"Option", <<"u8">>>>>>, <<<<>>>>>>,
       <<<<"Box", <<"i16">>>>, <<-1>>>>,
       <<<<"Vec", <<"u8">>>>, <<>>>>, <<<<"Vec", <<"u8">>>>, <<1, 2, 3>>>>,
       <<<<"Vec", <<"Option", <<"bool">>>>>>, <<<<TRUE>>, <<>>>>>>,
       <<<<"HashMap", <<"u8">>, <<"bool">>>>, {}>>,
       <<<<"HashMap", <<"u8">>, <<"bool">>>>, {<<1, TRUE>>, <<2, FALSE>>}>>,
       <<<<"HashMap", <<"i32">>, <<"Vec", <<"u16">>>>>>, {<<-1, <<258>>>>, <<0, <<>>>>}>>,
       <<<<"String16">>, <<>>>>, <<<<"String16">>, <<97>>>>,
       <<<<"String16">>, <<233>>>>, <<<<"String16">>, <<119070>>>>,
       <<<<"String">>, <<>>>>, <<<<"String">>, <<97>>>>,
       <<<<"String">>, <<119070>>>> >>

PSerialize ==
    /\ ~user_op.rewound
    /\ Len(user_op.vals) < MaxValues
    /\ \E i \in 1..Len(Values) :
        \E after \in serialize({user_parcel}, Values[i][1], Values[i][2]) :
            /\ user_parcel' = after
            /\ user_op' = [NoUserOp EXCEPT !.name = "serialize", !.arg = Values[i],
                                           !.before = user_parcel,
                                           !.n = user_op.n + 1,
                                           !.vals = Append(user_op.vals, Values[i])]
    /\ UNCHANGED <<client, service>>

PRewind ==
    /\ ~user_op.rewound
    /\ user_op.vals # <<>>
    /\ user_parcel' = set_position(user_parcel, 0)
    /\ user_op' = [NoUserOp EXCEPT !.name = "set_position", !.arg = 0,
                                   !.before = user_parcel, !.n = user_op.n + 1,
                                   !.vals = user_op.vals, !.rewound = TRUE]
    /\ UNCHANGED <<client, service>>

\* the next value read back, unless an earlier read failed
PDeserialize ==
    /\ user_op.rewound
    /\ user_op.nread < Len(user_op.vals)
    /\ user_op.res.kind \in {"none", "ok"}
    /\ LET r == deserialize(user_parcel, user_op.vals[user_op.nread + 1][1])
       IN  /\ user_parcel' = r.p
           /\ user_op' = [NoUserOp EXCEPT !.name = "deserialize",
                                          !.arg = user_op.vals[user_op.nread + 1],
                                          !.before = user_parcel,
                                          !.res = [kind |-> r.kind, val |-> r.val],
                                          !.n = user_op.n + 1,
                                          !.vals = user_op.vals,
                                          !.nread = user_op.nread + 1,
                                          !.rewound = TRUE]
    /\ UNCHANGED <<client, service>>

NextParcelable ==
    \/ PSerialize
    \/ PRewind
    \/ PDeserialize

SpecParcelable == Init /\ [][NextParcelable]_vars

(***************************************************************************)
(* Properties of the Parcel interface.                                     *)
(***************************************************************************)
Shifted(offsets, by) == [i \in 1..Len(offsets) |-> offsets[i] + by]

\* C14 (as claimed): whatever the state of the cursors, p.append_parcel(q)
\* leaves p with the bytes of p followed by the bytes of q, and with the
\* offsets of p followed by the offsets of q each increased by the length p
\* had before.
C14_AppendConcatenates ==
    [][ user_op'.name = "append_parcel" =>
          /\ user_parcel'.data = user_parcel.data \o user_op'.other.data
          /\ user_parcel'.offsets =
                user_parcel.offsets
                \o Shifted(user_op'.other.offsets, Len(user_parcel.data)) ]_vars

\* the offset is inside the buffer and a flat object on record starts there,
\* its bytes intact
PointsAtRecord(p, offset, objs) ==
    /\ offset < Len(p.data)
    /\ \E r \in objs :
          /\ r.at = offset
          /\ offset + Len(r.bytes) <= Len(p.data)
          /\ SubSeq(p.data, offset + 1, offset + Len(r.bytes)) = r.bytes

\* C15 (as claimed): after any sequence of Parcel operations every entry of
\* the offsets table is less than the length of the buffer and is the
\* position of the first byte of a flat object in the buffer.
C15_OffsetsPointAtObjects ==
    \A i \in 1..Len(user_parcel.offsets) :
        PointsAtRecord(user_parcel, user_parcel.offsets[i], user_op.objs)

FlatObjectWrites == {"write_object", "write_binder", "write_file_descriptor",
                     "serialize_fd"}

\* C16 (as claimed): every write of a flat object (write_object, write_binder,
\* write_file_descriptor, serialize of a BinderFd) adds exactly one entry to
\* the offsets table, the position the cursor had before the object's bytes
\* were written.
C16_FlatObjectWriteRecordsOffset ==
    [][ user_op'.name \in FlatObjectWrites =>
          user_parcel'.offsets = Append(user_parcel.offsets, user_parcel.pos) ]_vars

\* C17 (as claimed): after write_str16, write_str or write the length of the
\* buffer is a multiple of 4, whatever was written before.
C17_LengthAlignedAfterWrite ==
    [][ user_op'.name \in {"write_str16", "write_str", "write"} =>
          Len(user_parcel'.data) % 4 = 0 ]_vars

\* the i32 a write put at the cursor
PrefixWritten == BytesI32(SubSeq(user_parcel'.data, user_parcel.pos + 1, user_parcel.pos + 4))

\* C19 (as claimed): the length prefix write_str16 writes is the number of
\* UTF-16 code units of the string, the one write_str writes the number of
\* its UTF-8 bytes.
C19_StringPrefix ==
    [][ /\ user_op'.name = "write_str16" =>
              PrefixWritten = Len(encode_utf16(user_op'.arg))
        /\ user_op'.name = "write_str" =>
              PrefixWritten = Len(bytes(user_op'.arg)) ]_vars

RECURSIVE IsIntegral(_)
\* the type is built from the integer primitives and bool with Option, Box,
\* Vec and HashMap
IsIntegral(ty) ==
    \/ ty[1] \in PrimitiveTypes \cup {"bool"}
    \/ ty[1] \in {"Option", "Box", "Vec"} /\ IsIntegral(ty[2])
    \/ ty[1] = "HashMap" /\ IsIntegral(ty[2]) /\ IsIntegral(ty[3])

C20_StringRoundTrip ==
    [][ ( /\ user_op'.name = "deserialize"
          /\ Len(user_op.vals) = 2
          /\ user_op.vals[1][1][1] \in {"String16", "String"}
          /\ user_op.vals[2][1] = <<"u32">> ) =>
          /\ user_op'.res.kind = "ok"
          /\ user_op'.res.val = user_op'.arg[2]
          /\ user_op'.nread = 1 =>
                \E w \in serialize({ParcelEmpty}, user_op.vals[1][1], user_op.vals[1][2]) :
                    user_parcel'.pos = Len(w.data) ]_vars

(***************************************************************************)
(* SpecToken: an interface token is written into an empty parcel, or a     *)
(* parcel arrives with three words and a name in it; the cursor is set     *)
(* somewhere and the token is read.                                        *)
(***************************************************************************)
UWriteInterfaceToken(names) ==
    /\ user_op.n = 0
    /\ \E name \in names :
          UserStep("write_interface_token", name, ParcelEmpty,
                   write_interface_token(user_parcel, name), {})

UReadInterfaceToken ==
    /\ user_op.n < MaxOps
    /\ user_op.n > 0
    /\ LET r == read_interface_token(user_parcel)
       IN  /\ user_parcel' = r.p
           /\ user_op' = [NoUserOp EXCEPT !.name = "read_interface_token",
                                          !.before = user_parcel,
                                          !.res = [kind |-> r.kind, val |-> r.val],
                                          !.n = user_op.n + 1]
    /\ UNCHANGED <<client, service>>

\* "", "a", "ab", "x", "é", "€", a surrogate pair, and "éa"
TokenNames == Strings \cup { <<120>>, <<233, 97>> }

\* parcels as they may arrive: any policy word, a work source that is -1 or
\* not, a marker that is SYST or not, then a name; and one cut short
TokenSlices ==
    { I32Bytes(a) \o I32Bytes(b) \o I32Bytes(c) \o write_str16(ParcelEmpty, <<97>>).data :
        a \in {0, StrictModePolicy}, b \in {-1, 0, 1000}, c \in {HEADER, 0, -1} }
    \cup { I32Bytes(StrictModePolicy) \o I32Bytes(-1) }

NextToken ==
    \/ UWriteInterfaceToken(TokenNames)
    \/ UFromSlice(TokenSlices)
    \/ USetPosition
    \/ UReadInterfaceToken

SpecToken == Init /\ [][NextToken]_vars

\* the i32 at byte offset in the buffer
WordAt(p, offset) == BytesI32(SubSeq(p.data, offset + 1, offset + 4))

\* C21: read_interface_token on what write_interface_token(N) produced
\* returns N, for every name N; on a parcel whose second word is not -1 or
\* whose third word is not SYST it returns no name, whatever the first word.
C21_TokenRoundTrip ==
    [][ (user_op'.name = "read_interface_token" /\ user_parcel.pos = 0) =>
          /\ \A name \in TokenNames :
                user_parcel.data = write_interface_token(ParcelEmpty, name).data =>
                    user_op'.res = [kind |-> "ok", val |-> name]
          /\ ( /\ Len(user_parcel.data) >= 12
               /\ WordAt(user_parcel, 4) # -1 \/ WordAt(user_parcel, 8) # HEADER ) =>
                    user_op'.res.kind # "ok" ]_vars

\* C21 witness: the token of "éa" read back, and a token refused
C21_Witness ==
    /\ user_op.name = "read_interface_token"
    /\ user_op.before.pos = 0
    /\ user_op.res = [kind |-> "ok", val |-> <<233, 97>>]
    /\ user_parcel.pos = Len(user_parcel.data)

\* C22 (as claimed): write_interface_token("x") on an empty parcel starts with
\* the bytes 04 00 00 42, FF FF FF FF, 54 53 59 53, then str16("x").
C22_TokenBytesAsClaimed ==
    [][ (user_op'.name = "write_interface_token" /\ user_op'.arg = <<120>>) =>
          user_parcel'.data =
              <<4, 0, 0, 66>> \o <<255, 255, 255, 255>> \o <<84, 83, 89, 83>>
              \o write_str16(ParcelEmpty, <<120>>).data ]_vars

\* C22 (corrected): the first word is 1 << 31 | 0x42000004, bytes 04 00 00 C2;
\* then FF FF FF FF, 54 53 59 53 and str16("x"), the bytes 01 00 00 00 78 00
\* 00 00.
C22_TokenBytes ==
    [][ (user_op'.name = "write_interface_token" /\ user_op'.arg = <<120>>) =>
          user_parcel'.data =
              <<4, 0, 0, 194>> \o <<255, 255, 255, 255>> \o <<84, 83, 89, 83>>
              \o <<1, 0, 0, 0, 120, 0, 0, 0>> ]_vars

\* C22 witness: the token of "x" written
C22_Witness ==
    /\ user_op.name = "write_interface_token"
    /\ user_op.arg = <<120>>
    /\ Len(user_parcel.data) = 20
    /\ user_parcel.pos = 20

\* C23: serializing a sequence of u8 into an empty parcel writes the i32
\* element count and the elements padded with zeros to a four-byte boundary:
\* [1, 2, 3] gives 03 00 00 00 01 02 03 00, and the length written is always a
\* multiple of 4.
C23_VecU8Padded ==
    [][ ( /\ user_op'.name = "serialize"
          /\ user_op'.arg[1] = <<"Vec", <<"u8">>>>
          /\ user_parcel = ParcelEmpty ) =>
          /\ Len(user_parcel'.data) % 4 = 0
          /\ user_op'.arg[2] = <<1, 2, 3>> =>
                user_parcel'.data = <<3, 0, 0, 0, 1, 2, 3, 0>> ]_vars

(***************************************************************************)
(* #[derive(Parcelable)] on an enum.  A declaration is the sequence of its *)
(* variants, each with the discriminator attribute it carries (<<k>>, or   *)
(* <<>> for none) and the types of its fields in declaration order.  A     *)
(* value is <<i, vals>>: the i-th variant with its field values.           *)
(***************************************************************************)
\* mutant: the discriminator attribute is not looked at
Discriminator_IndexOnly(decl, i) == i - 1

\* the discriminator of the i-th variant: the declared one, or `i as i32`
\* with i counted from zero
Discriminator(decl, i) ==
    IF decl[i].discriminator # <<>> THEN decl[i].discriminator[1] ELSE i - 1

RECURSIVE SerializeFields(_, _, _)
\* #(#field_expressions);* : each field serialized in declaration order
SerializeFields(ps, types, vals) ==
    IF types = <<>> THEN ps
    ELSE SerializeFields(serialize(ps, Head(types), Head(vals)), Tail(types), Tail(vals))

\* the derived serialize: the arm of the value's variant writes the
\* discriminator and then the fields
serialize_enum(ps, decl, v) ==
    SerializeFields({ write_i32(p, Discriminator(decl, v[1])) : p \in ps },
                    decl[v[1]].fields, v[2])

RECURSIVE DeserializeFields(_, _, _)
RECURSIVE AfterField(_, _, _)
\* #(#field_expressions),* : each field deserialized in declaration order,
\* the first error returned
DeserializeFields(p, types, res) ==
    IF types = <<>> THEN [kind |-> "ok", val |-> res, p |-> p]
    ELSE AfterField(deserialize(p, Head(types)), Tail(types), res)

\* the `?` on a field's result r, and the fields after it
AfterField(r, types, res) ==
    IF r.kind # "ok" THEN [kind |-> r.kind, val |-> <<>>, p |-> r.p]
    ELSE DeserializeFields(r.p, types, Append(res, r.val))

\* the value of the i-th variant built from the result r of its fields
Construct(i, r) ==
    [kind |-> r.kind, val |-> IF r.kind = "ok" THEN <<i, r.val>> ELSE <<>>, p |-> r.p]

\* the first arm of the match that has the value w
FirstArm(decl, w) ==
    CHOOSE i \in 1..Len(decl) :
        /\ Discriminator(decl, i) = w
        /\ \A j \in 1..(i - 1) : Discriminator(decl, j) # w

\* the arms after the discriminator d was read
Match(d, decl) ==
    IF ~d.ok THEN [kind |-> "err", val |-> <<>>, p |-> d.p]
    ELSE IF \A i \in 1..Len(decl) : Discriminator(decl, i) # d.val
    THEN [kind |-> "BadEnumValue", val |-> <<>>, p |-> d.p]
    ELSE Construct(FirstArm(decl, d.val),
                   DeserializeFields(d.p, decl[FirstArm(decl, d.val)].fields, <<>>))

\* the derived deserialize: match on read_i32, the arms in declaration
\* order (the first arm with the value is taken), `_` returns BadEnumValue
deserialize_enum(p, decl) == Match(read_i32(p), decl)

Variant(discriminator, fields) == [discriminator |-> discriminator, fields |-> fields]

\* enums as a user may declare them: no discriminators; all declared; some
\* declared, one of them the index of another variant
EnumDecls ==
    << << Variant(<<>>, <<>>), Variant(<<>>, << <<"i32">> >>),
          Variant(<<>>, << <<"u8">>, <<"bool">> >>) >>,
       << Variant(<<7>>, <<>>), Variant(<<1000>>, << <<"u16">>, <<"i32">> >>) >>,
       << Variant(<<>>, << <<"i32">> >>), Variant(<<5>>, <<>>),
          Variant(<<>>, << <<"bool">> >>), Variant(<<0>>, <<>>),
          Variant(<<2000>>, << <<"Vec", <<"u8">>>> >>) >> >>

FieldValues(ty) ==
    CASE ty = <<"i32">> -> {-1, 7}
      [] ty = <<"u8">> -> {0, 255}
      [] ty = <<"u16">> -> {258}
      [] ty = <<"bool">> -> {TRUE, FALSE}
      [] ty = <<"Vec", <<"u8">>>> -> {<<>>, <<1, 2>>}

RECURSIVE FieldTuples(_)
\* the values the fields of a variant may hold
FieldTuples(types) ==
    IF types = <<>> THEN { <<>> }
    ELSE { <<x>> \o rest : x \in FieldValues(Head(types)), rest \in FieldTuples(Tail(types)) }

(***************************************************************************)
(* SpecEnum: a value of a derived enum is serialized into an empty parcel, *)
(* or a parcel arrives; the cursor is set somewhere and a value of a       *)
(* derived enum is deserialized.                                           *)
(***************************************************************************)
ESerialize ==
    /\ user_op.n = 0
    /\ \E d \in 1..Len(EnumDecls) : \E i \in 1..Len(EnumDecls[d]) :
        \E vals \in FieldTuples(EnumDecls[d][i].fields) :
            \E after \in serialize_enum({user_parcel}, EnumDecls[d], <<i, vals>>) :
                UserStep("serialize", <<d, <<i, vals>>>>, ParcelEmpty, after, {})

EDeserialize ==
    /\ user_op.n > 0
    /\ user_op.n < MaxOps
    /\ \E d \in 1..Len(EnumDecls) :
        LET r == deserialize_enum(user_parcel, EnumDecls[d])
        IN  /\ user_parcel' = r.p
            /\ user_op' = [NoUserOp EXCEPT !.name = "deserialize", !.arg = <<d>>,
                                           !.before = user_parcel,
                                           !.res = [kind |-> r.kind, val |-> r.val],
                                           !.n = user_op.n + 1]
    /\ UNCHANGED <<client, service>>

\* parcels as they may arrive: a word and eight more bytes, or two bytes
EnumSlices ==
    { I32Bytes(w) \o <<1, 0, 0, 0, 2, 0, 0, 0>> : w \in {-1, 0, 1, 2, 3, 4, 5, 7, 1000} }
    \cup { <<1, 0>> }

NextEnum ==
    \/ ESerialize
    \/ UFromSlice(EnumSlices)
    \/ USetPosition
    \/ EDeserialize

SpecEnum == Init /\ [][NextEnum]_vars

\* the tag the claim gives the i-th variant
ClaimedTag(decl, i) ==
    IF decl[i].discriminator # <<>> THEN decl[i].discriminator[1] ELSE i - 1

RECURSIVE FieldBytes(_, _)
\* the fields one after another, each as it serializes on its own
FieldBytes(types, vals) ==
    IF types = <<>> THEN <<>>
    ELSE (CHOOSE q \in serialize({ParcelEmpty}, Head(types), Head(vals)) : TRUE).data
         \o FieldBytes(Tail(types), Tail(vals))

\* C24: the derived serialize of variant V writes the i32 that is V's declared
\* discriminator, or V's zero-based index when it has none, and then V's
\* fields in declaration order; the derived deserialize returns BadEnumValue
\* and no value when the i32 it reads is no variant's discriminator, and
\* otherwise never BadEnumValue, and a value it returns is of a variant with
\* that discriminator.
C24_DerivedEnum ==
    [][ /\ user_op'.name = "serialize" =>
            LET decl == EnumDecls[user_op'.arg[1]]
                v == user_op'.arg[2]
            IN  user_parcel'.data =
                    I32Bytes(ClaimedTag(decl, v[1])) \o FieldBytes(decl[v[1]].fields, v[2])
        /\ (user_op'.name = "deserialize"
              /\ Len(user_parcel.data) - user_parcel.pos >= 4) =>
            LET decl == EnumDecls[user_op'.arg[1]]
                w == WordAt(user_parcel, user_parcel.pos)
                known == \E i \in 1..Len(decl) : ClaimedTag(decl, i) = w
            IN  /\ ~known => user_op'.res = [kind |-> "BadEnumValue", val |-> <<>>]
                /\ known => user_op'.res.kind # "BadEnumValue"
                /\ user_op'.res.kind = "ok" =>
                      /\ ClaimedTag(decl, user_op'.res.val[1]) = w
                      /\ Len(user_op'.res.val[2]) = Len(decl[user_op'.res.val[1]].fields)
      ]_vars

\* C24 witness: the variant declared with discriminator 1000 read back with its
\* two fields
C24_Witness ==
    /\ user_op.name = "deserialize"
    /\ user_op.arg = <<2>>
    /\ user_op.before.pos = 0
    /\ user_op.before.data = I32Bytes(1000) \o <<2, 1>> \o I32Bytes(-1)
    /\ user_op.res = [kind |-> "ok", val |-> <<2, <<258, -1>>>>]

\* C24 witness: an unknown discriminator refused
C24_WitnessBad ==
    /\ user_op.name = "deserialize"
    /\ user_op.res.kind = "BadEnumValue"

(***************************************************************************)
(* SpecReads: a parcel arrives, the cursor is set somewhere, and values    *)
(* are read from it.                                                       *)
(***************************************************************************)
\* Parcel::read_without_alignment
read_without_alignment(p, size) ==
    LET r == CursorRead(p, size)
    IN  [ok |-> TRUE, val |-> r.val \o Zeros(size - r.n), p |-> r.p]

ReadNames ==
    { "read_u8", "read_u16", "read_u32", "read_u64", "read_i32", "read_usize", "read",
      "read_without_alignment", "read_str", "read_str16", "read_object",
      "read_transaction_data" }

ReadSizes == { 0, 1, 4, 5 }

Kind(ok) == IF ok THEN "ok" ELSE "err"

\* the read operation name applied to p; size is the argument of read and
\* read_without_alignment and the size of the T of read_object; an object
\* read is given as its bytes
ReadOp(name, p, size, beyond) ==
    CASE name = "read_u8" -> LET r == read_u8(p) IN [kind |-> Kind(r.ok), val |-> r.val, p |-> r.p]
      [] name = "read_u16" -> LET r == read_u16(p) IN [kind |-> Kind(r.ok), val |-> r.val, p |-> r.p]
      [] name = "read_u32" -> LET r == read_u32(p) IN [kind |-> Kind(r.ok), val |-> r.val, p |-> r.p]
      [] name = "read_i32" -> LET r == read_i32(p) IN [kind |-> Kind(r.ok), val |-> r.val, p |-> r.p]
      [] name = "read_u64" -> LET r == read_u64(p) IN [kind |-> Kind(r.ok), val |-> r.val, p |-> r.p]
      [] name = "read_usize" -> LET r == read_usize(p) IN [kind |-> Kind(r.ok), val |-> r.val, p |-> r.p]
      [] name = "read" -> LET r == read(p, size) IN [kind |-> Kind(r.ok), val |-> r.val, p |-> r.p]
      [] name = "read_without_alignment" ->
            LET r == read_without_alignment(p, size) IN [kind |-> Kind(r.ok), val |-> r.val, p |-> r.p]
      [] name = "read_str" -> read_str(p)
      [] name = "read_str16" -> read_str16(p)
      [] name = "read_object" ->
            LET r == read_object(p, size, beyond) IN [kind |-> Kind(r.ok), val |-> r.val, p |-> r.p]
      [] name = "read_transaction_data" ->
            LET r == read_object(p, SizeOfTransactionData, beyond)
            IN  [kind |-> Kind(r.ok), val |-> r.val, p |-> r.p]

\* one read where the parcel arrived or the cursor was set
URead ==
    /\ user_op.name \in {"from_slice", "set_position"}
    /\ user_op.n < MaxOps
    /\ \E name \in ReadNames, size \in ReadSizes, beyond \in Beyond :
        /\ name \notin {"read", "read_without_alignment", "read_object"} => size = 0
        /\ name \notin {"read_object", "read_transaction_data"} => beyond = Zeros(SizeOfTransactionData)
        /\ LET r == ReadOp(name, user_parcel, size, beyond)
           IN  /\ user_parcel' = r.p
               /\ user_op' = [NoUserOp EXCEPT !.name = name, !.arg = size,
                                              !.before = user_parcel,
                                              !.res = [kind |-> r.kind, val |-> r.val],
                                              !.n = user_op.n + 1]
    /\ UNCHANGED <<client, service>>

\* parcels as they may arrive: empty, one byte, two words, a str16 and a str
\* cut short, a whole transaction descriptor
ReadSlices ==
    { <<>>, <<170>>, <<1, 0, 0, 0, 2, 0, 0, 0>>, <<2, 0, 0, 0, 97, 0>>, <<3, 0, 0, 0, 97>>,
      Zeros(SizeOfTransactionData) }

\* the cursor set to a word boundary or to the end
USetWordPosition ==
    \E pos \in {0, 4, Len(user_parcel.data)} :
        /\ pos <= Len(user_parcel.data)
        /\ UserStep("set_position", pos, ParcelEmpty, set_position(user_parcel, pos), {})

NextReads ==
    \/ UFromSlice(ReadSlices)
    \/ USetWordPosition
    \/ URead

SpecReads == Init /\ [][NextReads]_vars

RoundUp4(n) == IF n % 4 # 0 THEN n + 4 - (n % 4) ELSE n

\* the bytes left between the cursor and the end of the buffer
Remaining(p) == IF p.pos < Len(p.data) THEN Len(p.data) - p.pos ELSE 0

\* the bytes the read operation name needs from the cursor on
Needs(name, p, size) ==
    CASE name = "read_u8" -> 1
      [] name = "read_u16" -> 2
      [] name \in {"read_u32", "read_i32"} -> 4
      [] name \in {"read_u64", "read_usize"} -> 8
      [] name = "read" -> RoundUp4(size)
      [] name \in {"read_without_alignment", "read_object"} -> size
      [] name = "read_transaction_data" -> SizeOfTransactionData
      [] name \in {"read_str", "read_str16"} ->
            IF Remaining(p) < 4 THEN 4
            ELSE LET len == WordAt(p, p.pos) + 1
                 IN  IF len <= 0 THEN 4
                     ELSE 4 + RoundUp4(IF name = "read_str16" THEN len * 2 ELSE len)

\* C25: a read operation that needs more bytes than remain between the cursor
\* and the end of the buffer returns an error and no value.
C25_TruncatedReadsReported ==
    [][ (user_op'.name \in ReadNames
           /\ Remaining(user_parcel) < Needs(user_op'.name, user_parcel, user_op'.arg)) =>
          user_op'.res.kind = "err" ]_vars

(***************************************************************************)
(* Properties of the looper lifecycle and of teardown.                     *)
(***************************************************************************)
\* C26: the driver sees ExitLooper only from a client that has sent
\* EnterLooper before, and the listener takes no flush or dispatch step
\* before EnterLooper has been sent.
C26_LooperLifecycle ==
    [][ /\ (~looper.exited /\ looper'.exited) => looper.entered
        /\ op'.name \in {"run", "dispatch"} => looper.entered ]_vars

C28_NoReplyReturnsNone ==
    [][ ( /\ op'.name \in FlushNames
          /\ \A i \in 1..Len(Delivered) :
                Delivered[i].cmd \notin {BR_REPLY, BR_TRANSACTION, BR_DEAD_REPLY,
                                         BR_FAILED_REPLY} )
        => /\ ret'.kind = "ok"
           /\ ~ret'.some
           /\ ret'.parcel = ParcelEmpty
           /\ ret'.unread = 0 ]_vars

\* C28 witness: reply has returned (None, empty) after an Error frame and a
\* ref-count demand, 28 bytes in all
C28_Witness ==
    /\ op.name = "reply"
    /\ ret.kind = "ok" /\ ~ret.some
    /\ ret.parcel = ParcelEmpty
    /\ ret.printed # <<>>
    /\ ioc[1].read_consumed = 8 + 20
    /\ ret.unread = 0

(***************************************************************************)
(* Properties of what transact and reply put on the wire.                  *)
(***************************************************************************)
\* the last command of the write buffer of the step's only flush: its opcode
\* and the descriptor after it
LastOpcode(calls) ==
    BytesI32(SubSeq(calls[1].write, Len(calls[1].write) - SizeOfTransactionData - 3,
                    Len(calls[1].write) - SizeOfTransactionData))

LastDescriptor(calls) ==
    TransactionDataOfBytes(SubSeq(calls[1].write,
                                  Len(calls[1].write) - SizeOfTransactionData + 1,
                                  Len(calls[1].write)))

\* exactly one system call, the write/read ioctl with the 256-byte read buffer
OneFlush(calls) ==
    /\ Len(calls) = 1
    /\ calls[1].sys = "write_read"
    /\ calls[1].read_size = 256
    /\ Len(calls[1].write) >= 4 + SizeOfTransactionData

\* the sizes and pointers the descriptor td must carry for the parcel data
DescribesData(td, data) ==
    /\ td.data_size = Len(data.data)
    /\ td.offset_size = 8 * Len(data.offsets)
    /\ (td.data = 0) <=> (Len(data.data) = 0)
    /\ (td.offsets = 0) <=> (Len(data.offsets) = 0)

\* C29: transact(handle, code, flags, data) puts the Transaction opcode and
\* one descriptor at the end of pending-out, with target = handle, code =
\* code, flags = flags with AcceptFds set, data_size = len(data), offset_size
\* = 8 * the number of offsets, a null data pointer iff data is empty, a null
\* offsets pointer iff there are no offsets; and it performs exactly one
\* write/read ioctl, with a 256-byte inbound buffer.
C29_TransactDescriptor ==
    [][ op'.name = "transact" =>
          \E a \in TransactArgs :
              /\ a.handle = op'.log[Len(op'.log)].handle
              /\ a.data = op'.log[Len(op'.log)].parcel
              /\ OneFlush(ioc')
              /\ LastOpcode(ioc') = BC_TRANSACTION
              /\ LET td == LastDescriptor(ioc')
                 IN  /\ td.target = a.handle
                     /\ td.code = a.code
                     /\ td.flags = IF HasBit(a.flags, TF_AcceptFds) THEN a.flags
                                   ELSE a.flags + TF_AcceptFds
                     /\ DescribesData(td, a.data) ]_vars

\* C29 witness: a one-way transact with an object, flushed behind a queued
\* ref-count command
C29_Witness ==
    /\ op.name = "transact"
    /\ Len(op.log) = 2
    /\ Len(ioc) = 1
    /\ Len(ioc[1].write) = 8 + 4 + SizeOfTransactionData
    /\ LastDescriptor(ioc).flags = TF_OneWay + TF_AcceptFds
    /\ LastDescriptor(ioc).offset_size = 8

\* C30: reply(data, flags) puts the Reply opcode and one descriptor at the end
\* of pending-out, with target = 0xffffffff, code = 0 and flags exactly the
\* caller's; and it flushes once.
C30_ReplyDescriptor ==
    [][ op'.name = "reply" =>
          \E a \in ReplyArgs :
              /\ a.data = op'.log[Len(op'.log)].parcel
              /\ OneFlush(ioc')
              /\ LastOpcode(ioc') = BC_REPLY
              /\ LET td == LastDescriptor(ioc')
                 IN  /\ td.target = -1
                     /\ td.code = 0
                     /\ td.flags = a.flags
                     /\ DescribesData(td, a.data) ]_vars

\* C30 witness: a reply with no flags went out with no flags
C30_Witness ==
    /\ op.name = "reply"
    /\ Len(ioc) = 1
    /\ LastOpcode(ioc) = BC_REPLY
    /\ LastDescriptor(ioc).flags = 0
    /\ LastDescriptor(ioc).target = -1
    /\ LastDescriptor(ioc).data = 0

\* C31: read(n) advances the cursor by n rounded up to a multiple of 4 and
\* returns that many bytes; read_without_alignment(n) advances the cursor by
\* exactly n; whatever the parcel holds and wherever its cursor is.
C31_ReadAdvances ==
    [][ /\ user_op'.name = "read" =>
              /\ user_parcel'.pos = user_parcel.pos + RoundUp4(user_op'.arg)
              /\ Len(user_op'.res.val) = RoundUp4(user_op'.arg)
        /\ user_op'.name = "read_without_alignment" =>
              user_parcel'.pos = user_parcel.pos + user_op'.arg ]_vars

(***************************************************************************)
(* Properties of the ServiceManager calls.                                 *)
(***************************************************************************)
\* the parcel that starts with the ServiceManager's interface token and the
\* str16 name
Named(name) ==
    write_str16(write_interface_token(ParcelEmpty, SERVICE_MANAGER_INTERFACE_TOKEN), name)

\* C32: register_service writes EnterLooper to the driver and then flushes the
\* AddService transaction: target handle 0, code 3, and a payload that is the
\* ServiceManager interface token, the str16 name, one flat binder object
\* with its offset in the offsets table, the allow-isolated bool and the
\* dump-priority u32, and nothing else.
C32_RegisterService ==
    [][ op'.name = "register_service" =>
          \E a \in Registrations :
            LET payload == op'.log[Len(op'.log)].parcel
                named   == Named(a.name).data
                td      == LastDescriptor(<<ioc'[2]>>)
            IN  /\ Len(ioc') = 2
                /\ ioc'[1].write = I32Bytes(BC_ENTER_LOOPER)
                /\ LastOpcode(<<ioc'[2]>>) = BC_TRANSACTION
                /\ td.target = 0
                /\ td.code = 3
                /\ td.data_size = Len(payload.data)
                /\ payload.offsets = <<Len(named)>>
                /\ Len(payload.data) = Len(named) + SizeOfFlatObject + 4 + 4
                /\ SubSeq(payload.data, 1, Len(named)) = named
                /\ SubSeq(payload.data, Len(named) + SizeOfFlatObject + 1, Len(payload.data))
                      = I32Bytes(IF a.allow_isolated THEN 1 ELSE 0)
                        \o I32Bytes(a.dump_priority) ]_vars

\* IncRefs(h) then Acquire(h) as they lie in pending-out
RefPair(h) ==
    I32Bytes(BC_INCREFS) \o I32Bytes(h) \o I32Bytes(BC_ACQUIRE) \o I32Bytes(h)

\* the frames handed over are skipped ones and then the reply that carries a
\* status word and the strong handle 1
GotObjectReply(frames) ==
    /\ Len(frames) >= 1
    /\ frames[Len(frames)] = DescriptorFrame(BR_REPLY, DriverDescriptor(Layout.obj, 0, 0))
    /\ \A i \in 1..(Len(frames) - 1) :
          frames[i].cmd \in {BR_NOOP, BR_TRANSACTION_COMPLETE}

\* C33: get_service flushes one GetService transaction (handle 0, code 1,
\* payload the ServiceManager interface token and the str16 service name);
\* when the reply with the handle h came back it leaves exactly IncRefs(h),
\* Acquire(h) in pending-out; and the flush after it starts with these two
\* commands, the Transaction opcode behind them.
C33_GetService ==
    [][ /\ op'.name = "get_service" =>
            \E n \in Lookups :
                LET td == LastDescriptor(ioc')
                IN  /\ Len(ioc') = 1
                    /\ LastOpcode(ioc') = BC_TRANSACTION
                    /\ td.target = 0
                    /\ td.code = 1
                    /\ op'.log[Len(op'.log)].parcel.data = Named(n.service_name).data
                    /\ GotObjectReply(Delivered) =>
                          /\ svc'.handle = 1
                          /\ binder'.pending_out_data.data = RefPair(1)
        /\ (op.name = "get_service" /\ ret.kind = "ok" /\ op'.name = "call") =>
              SubSeq(ioc'[1].write, 1, 20) = RefPair(svc.handle) \o I32Bytes(BC_TRANSACTION)
      ]_vars

\* two variants of the declaration have the same effective discriminator
Collides(decl) ==
    \E i, j \in 1..Len(decl) : i # j /\ ClaimedTag(decl, i) = ClaimedTag(decl, j)

\* C34: no serializer is emitted for a declaration in which two variants have
\* the same effective discriminator, so a value is serialized only for a
\* declaration without such a pair, and a value a deserializer returns is of
\* the only variant that writes the i32 that was read.
C34_CollisionsRejected ==
    [][ /\ user_op'.name = "serialize" => ~Collides(EnumDecls[user_op'.arg[1]])
        /\ (user_op'.name = "deserialize" /\ user_op'.res.kind = "ok") =>
              LET decl == EnumDecls[user_op'.arg[1]]
                  w == WordAt(user_parcel, user_parcel.pos)
              IN  \A j \in 1..Len(decl) :
                      ClaimedTag(decl, j) = w => j = user_op'.res.val[1]
      ]_vars

RECURSIVE FrameErrors(_)
\* the values of the Error frames among the frames a call goes through: the
\* frames up to the first that ends the processing
FrameErrors(frames) ==
    IF frames = <<>> THEN <<>>
    ELSE LET f == Head(frames)
         IN  IF IsDescriptorFrame(f) \/ f.cmd \in TerminalReplies THEN <<>>
             ELSE (IF f.cmd = BR_ERROR THEN <<BytesI32(f.payload)>> ELSE <<>>)
                  \o FrameErrors(Tail(frames))

\* C35: proccess_incoming consumes each return command with its whole fixed
\* payload, so the words it takes for opcodes are the first words of the
\* frames: the "Got an error" lines of a call are those of the Error frames
\* handed over, in their order, and no payload word is taken for one.
C35_FramesAligned ==
    [][ op'.name \in FlushNames => ret'.printed = FrameErrors(Delivered) ]_vars

(***************************************************************************)
(* SpecIncoming: an inbound buffer arrives and the loop of                 *)
(* proccess_incoming runs over it, one iteration a step.  user_parcel is   *)
(* parcel_in; user_op.res.kind tells how the last iteration ended:         *)
(* "continue" for the next test of the loop condition, "return" for        *)
(* return Ok(..), "err" for a failed read returned by `?`, "panic".        *)
(***************************************************************************)
Iteration(kind, p) == [kind |-> kind, p |-> p]

\* the `?` on the read of a command's one-word payload
AfterWord(r) == Iteration(IF r.ok THEN "continue" ELSE "err", r.p)

\* one pass through the body of the while loop; read_transaction_data is
\* read_object of a descriptor, of which the cursor alone matters here
LoopBody(parcel_in, beyond) ==
    LET c == read_u32(parcel_in) IN
    IF ~c.ok THEN Iteration("err", c.p)
    ELSE IF c.val \notin BinderDriverReturnProtocol THEN Iteration("continue", c.p)
    ELSE IF c.val \in TerminalReplies THEN Iteration("panic", c.p)
    ELSE IF c.val \in {BR_ACQUIRE_RESULT, BR_ERROR} THEN AfterWord(read_i32(c.p))
    ELSE IF c.val \in {BR_REPLY, BR_TRANSACTION}
    THEN Iteration("return", read_object(c.p, SizeOfTransactionData, beyond).p)
    ELSE Iteration("continue", c.p)

InLoop == user_op.n > 0 /\ user_op.res.kind \in {"none", "continue"}

LoopStep(name, kind, p) ==
    /\ user_parcel' = p
    /\ user_op' = [NoUserOp EXCEPT !.name = name, !.before = user_parcel,
                                   !.res = [kind |-> kind, val |-> <<>>], !.n = 1]
    /\ UNCHANGED <<client, service>>

\* parcel_in.has_unread_data() holds: the body runs once
IIterate ==
    /\ InLoop
    /\ has_unread_data(user_parcel)
    /\ \E beyond \in Beyond :
          LoopStep("iteration", LoopBody(user_parcel, beyond).kind,
                   LoopBody(user_parcel, beyond).p)

\* parcel_in.has_unread_data() fails: Ok((None, Parcel::empty()))
IExit ==
    /\ InLoop
    /\ ~has_unread_data(user_parcel)
    /\ LoopStep("exit", "return", user_parcel)

\* words a buffer may hold: commands without payload, known and not, commands
\* with a payload of one word, of four, of a descriptor, and one that panics
InWords ==
    { BR_NOOP, 0, BR_FINISHED, BR_ERROR, BR_ACQUIRE_RESULT, BR_INCREFS, BR_REPLY,
      BR_FAILED_REPLY }

\* buffers of up to two such words and up to three bytes more, and a Reply
\* with its whole descriptor
InSlices ==
    { Flatten([i \in 1..Len(ws) |-> I32Bytes(ws[i])]) \o tail :
        ws \in {<<>>} \cup { <<a>> : a \in InWords } \cup (InWords \X InWords),
        tail \in { <<>>, <<1>>, <<1, 2, 3>> } }
    \cup { I32Bytes(BR_REPLY) \o Zeros(SizeOfTransactionData) }

IArrive == user_op.n = 0 /\ UFromSlice(InSlices)

NextIncoming ==
    \/ IArrive
    \/ IIterate
    \/ IExit

\* the thread that entered the loop goes on running it
SpecIncoming ==
    Init /\ [][NextIncoming]_vars /\ WF_vars(IIterate) /\ WF_vars(IExit)

LoopLeft == user_op.res.kind \in {"return", "err", "panic"}

\* C36: each iteration of the loop of proccess_incoming moves the cursor
\* forward by four bytes or more, or leaves the loop by a return, a failed
\* read or a panic; the loop goes on only with the cursor inside the buffer;
\* and on every buffer the loop is left in the end.
C36_LoopTerminates ==
    /\ [][ user_op'.name = "iteration" =>
              \/ user_op'.res.kind \in {"return", "err", "panic"}
              \/ /\ user_parcel'.pos >= user_parcel.pos + 4
                 /\ user_parcel'.pos <= Len(user_parcel'.data) ]_vars
    /\ (user_op.name = "from_slice") ~> LoopLeft

\* C36 witness: the loop left by the return of a descriptor whose read took
\* the cursor past the end of the buffer
C36_Witness ==
    /\ user_op.name = "iteration"
    /\ user_op.res.kind = "return"
    /\ user_parcel.pos > Len(user_parcel.data)

\* C36 witness: a buffer of seven bytes: one unknown word skipped, then the
\* read of the next opcode fails
C36_WitnessOdd ==
    /\ user_op.name = "iteration"
    /\ user_op.res.kind = "err"
    /\ user_op.before.pos = 4
    /\ user_parcel.data = <<0, 0, 0, 0, 1, 2, 3>>

\* the calls among the frames handed over
TransactionsIn(frames) == SelectSeq(frames, LAMBDA f : f.cmd = BR_TRANSACTION)

\* C37: no call is lost by a running listener: of the frames the driver hands
\* over in a flush of the listener, that at the head of run or that inside
\* reply, at most one is a Transaction, and it is the one the listener holds
\* next, to dispatch or to answer.
C37_NoCallLost ==
    [][ (op'.name \in {"run", "dispatch"} /\ listener'.state = "running") =>
          \/ TransactionsIn(Delivered) = <<>>
          \/ /\ Len(TransactionsIn(Delivered)) = 1
             /\ listener'.some
             /\ listener'.td = TransactionsIn(Delivered)[1].td ]_vars

\* C38: run, given a Transaction whose code is outside [1, 0x00ffffff] and is
\* not '_NTF', sends no Reply whose parcel holds the interface name.
C38_InterfaceReplyOnlyForInterface ==
    [][ ( /\ op'.name = "dispatch"
          /\ ~InCallRange(listener.td.code)
          /\ listener.td.code # INTERFACE_TRANSACTION )
        => \A i \in 1..Len(op'.log) :
              ~ ( /\ op'.log[i].call = "reply"
                  /\ ContainsBytes(op'.log[i].parcel.data,
                                   WireStr16(listener.interface_name)) ) ]_vars

\* C39: a read leaves the cursor at or before the end of the buffer, and
\* read_object / read_transaction_data with fewer bytes left than the object
\* has returns no value.
C39_CursorBound ==
    [][ user_op'.name \in ReadNames =>
          /\ user_parcel'.pos <= Len(user_parcel'.data)
          /\ ( /\ user_op'.name \in {"read_object", "read_transaction_data"}
               /\ Remaining(user_parcel) < Needs(user_op'.name, user_parcel, user_op'.arg) )
             => user_op'.res.kind # "ok" ]_vars

(***************************************************************************)
(* SpecFlush: commands are queued and flushed, one flush after another,    *)
(* against a driver whose frames let the inbound processing return         *)
(* Ok((None, _)), Ok((Some(_), _)) or Err(_).                              *)
(***************************************************************************)
\* Noop, a Reply, and an Error command whose payload did not fit the read
\* buffer any more: read_i32 fails on it
FlushFrames ==
    { BareFrame(BR_NOOP), DescriptorFrame(BR_REPLY, DriverDescriptor(Layout.s1, 0, 0)),
      BareFrame(BR_ERROR) }

NextFlush ==
    \/ DriverPost(FlushFrames)
    \/ \E h \in RefHandles : RefCall("add_ref", h)
    \/ \E h \in RefHandles : RefCall("release", h)
    \/ Transact({CallArgs(0, 1, 0, ParcelEmpty)}, {Zeros(4)})
    \/ DoWriteRead(OutParcels)

SpecFlush == Init /\ [][NextFlush]_vars

\* C40: when do_write_read returns Ok or Err, the ioctl it issued was given
\* what pending-out held before the call at the head of its write buffer, and
\* pending-out is empty: no bytes, cursor 0, no offsets; a command queued
\* after such a flush is all that pending-out holds, from offset 0 on.
C40_FlushedOnce ==
    [][ /\ (op'.name \in FlushNames /\ ret'.kind \in {"ok", "err"}) =>
              /\ binder'.pending_out_data = ParcelEmpty
              /\ Len(ioc') = 1
              /\ Len(ioc'[1].write) >= Len(binder.pending_out_data.data)
              /\ SubSeq(ioc'[1].write, 1, Len(binder.pending_out_data.data))
                    = binder.pending_out_data.data
        /\ (op.name \in FlushNames /\ ret.kind \in {"ok", "err"} /\ op'.name \in RefNames) =>
              /\ binder'.pending_out_data.data = WireBytes(queued'[Len(queued')])
              /\ binder'.pending_out_data.pos = 8 ]_vars

\* C40 witness: do_write_read has returned Err after a flush of two queued
\* commands and its own parcel, and pending-out is empty
C40_Witness ==
    /\ op.name = "do_write_read"
    /\ ret.kind = "err"
    /\ Len(op.log) = 3
    /\ Len(ioc[1].write) = 8 + 8 + 4
    /\ binder.pending_out_data = ParcelEmpty


====
